---- MODULE Spec2Model ----
(***************************************************************************)
(* A model of the friendtech ingestion core: the checkpointed block        *)
(* scanner (src/src/utils.py), the persistence operations                  *)
(* (src/db/operations.py), the RPC endpoint selector (src/src/scanner.py)  *)
(* and the trade reducer.                                                  *)
(*                                                                         *)
(* Specifications:                                                         *)
(*   Spec          scan cycles over a growing chain, with concurrent       *)
(*                 sub-ranges, trade inserts and share reconciliation      *)
(*   SpecInsert    insert_trades called with arbitrary batches             *)
(*   SpecSelector  the endpoint selector under a non-decreasing clock      *)
(*   SpecReducer   the reducer of process_trades_to_shares on arbitrary    *)
(*                 batches                                                 *)
(*   SpecLive      Spec from the largest batch size, with the fairness of  *)
(*                 the periodic loop                                       *)
(*   SpecOuter     the semaphore around handle_block_range                 *)
(*   SpecReads     the four chain reads and their retries                  *)
(*   SpecDecode    get_trades and its decode tasks                         *)
(*   SpecPrice     the price functions of Contract                         *)
(*   SpecFetch     concurrent block fetches retried while one endpoint     *)
(*                 always answers                                          *)
(*   SpecBlock     get_trades on the receipts of one block                 *)
(*   SpecEnrich    update_twitter_info beside the aggregator's updates     *)
(*   SpecEnrichLive  SpecEnrich with the fairness of the pass's coroutine  *)
(*   SpecNest      the three semaphores of one scan cycle                  *)
(***************************************************************************)
EXTENDS Integers, Sequences, FiniteSets, TLC

VARIABLES
    \* ---- the chain and the database
    chain_head,        \* web3.eth.get_block_number()
    trades_table,      \* rows of table trades, in insertion order
    shares_table,      \* rows of table shares, in insertion order
    \* ---- one scan cycle (scan_blockchain)
    batch_size,        \* main(): batch_size
    cycles,            \* the scan cycles that have created sub-ranges
    faults,            \* the calls that have raised for a reason outside
                       \* the program (database, endpoint)
    cycle_pc,          \* periodic_blockchain_scan: "sleep" after a cycle that
                       \* returned, "failed" after one that raised, "start" and
                       \* "restart" in get_last_block, "read_head", "gather"
    start_block,       \* scan_blockchain: start_block
    last_block,        \* scan_blockchain: last_block
    ranges,            \* the handle_block_range tasks of the cycle; exc is the
                       \* set of the two writes ("ins", "agg") that raised
    scanned,           \* block -> number of get_trades calls in this cycle
    \* ---- insert_trades on its own
    ins_batch,         \* the batch of the last insert_trades call
    ins_before,        \* the table before that call
    ins_raised,        \* whether that call raised
    \* ---- the endpoint selector (Scanner)
    current_time,      \* time()
    backoff_times,     \* Scanner.backoff_times
    requests_counter,  \* Scanner.requests_counter
    last_selected,     \* Scanner.last_selected
    in_flight,         \* rpc -> chain reads selected on it and not yet ended
    fair_run,          \* history: the picks since a call found the endpoints level
    fair_clean,        \* history: that call found no recent failure at all
    fair_later,        \* history: that call read a later clock value than the one before
    worst,             \* history: the endpoint the picks of worst_run found worst
    worst_run,         \* history: rpc -> its picks while one endpoint was worst
    \* ---- the reducer on its own
    red_trades,        \* the input batch
    red_out,           \* most_recent_trades.values()
    red_done,
    \* ---- the price functions on their own
    price_in,          \* [supply, amount], supply >= amount >= 1
    price_out,         \* <<>> or <<[buy, sell]>>, the two prices after fee,
                       \* floats
    \* ---- the chain reads of the Scanner
    reads,             \* the calls of the four read methods
    \* ---- Scanner.get_trades
    gt,                \* the get_trades calls
    \* ---- block fetches retried against endpoints of fixed health
    fetch,             \* the calls and the endpoint that always answers
    \* ---- one block decoded by get_trades
    blk_in,            \* [block, timestamp, txs, failed]: the block, the
                       \* receipts of its transactions, the indexes of those
                       \* whose decode ends in failure
    blk_out,           \* <<>> or <<trades>>, what get_trades returned
    \* ---- update_twitter_info beside the aggregator
    enr,               \* the enrichment pass: its pc and the Shares it read
    \* ---- the semaphores of one scan cycle
    nest               \* the handle_block_range tasks and their block tasks

scanVars == <<chain_head, trades_table, shares_table, batch_size, cycles, faults, cycle_pc,
              start_block, last_block, ranges, scanned>>
insVars == <<ins_batch, ins_before, ins_raised>>
selVars == <<current_time, backoff_times, requests_counter, last_selected,
             in_flight, fair_run, fair_clean, fair_later, worst, worst_run>>
redVars == <<red_trades, red_out, red_done>>
priceVars == <<price_in, price_out>>
moreVars == <<fetch, blk_in, blk_out, enr, nest>>
auxVars == <<priceVars, reads, gt, moreVars>>
vars == <<scanVars, insVars, selVars, redVars, auxVars>>

-----------------------------------------------------------------------------
(* Bounds of the model *)

MaxBlock == 4
MaxBatch == 3
MaxLag == 1
NumRpcs == 3
MaxCalls == 7
MaxInFlight == 1
MaxTicks == 2
MaxFailures == 3
MaxTrades == 3
MaxTimestamp == 3
TimeStep == 300
MaxCycles == 2
MaxFaults == 2

-----------------------------------------------------------------------------
(* Program constants *)

OuterLimit == 5
BackoffWindow == 600
MaxTries == 1000000
ScannerSem == 5

\* Python's None and SQL's NULL; every value of an int field is >= 0
None == -1

-----------------------------------------------------------------------------
(* Generic helpers *)

Min(a, b) == IF a < b THEN a ELSE b

Range(s) == {s[i] : i \in 1..Len(s)}

-----------------------------------------------------------------------------
(* The chain: what the RPC endpoints serve.  Block b holds the transactions *)
(* sent to the contract; each emits one Trade event.  Kept fields of a      *)
(* Trade: transaction_hash, block_number, subject, timestamp, supply.       *)

Subjects == {"0xa1", "0xa2"}

BlockTimestamp(b) == 2 * b

ChainTx(b, k, subject) ==
    [hash |-> 10 * b + k, block |-> b, subject |-> subject, supply |-> b + k]

\* block['transactions'] filtered to the contract address
ChainTxs(b) ==
    CASE b % 4 = 1 -> << ChainTx(b, 1, "0xa1") >>
      [] b % 4 = 2 -> << ChainTx(b, 1, "0xa1"), ChainTx(b, 2, "0xa2") >>
      [] b % 4 = 3 -> << ChainTx(b, 1, "0xa1"), ChainTx(b, 2, "0xa1") >>
      [] OTHER     -> << >>

\* the balance eth.get_balance serves for an address when the head is h
ChainBalance(address, h) == (IF address = "0xa1" THEN 100 ELSE 200) + h

\* Scanner._decode_trade_events: the Trade of a transaction's event
DecodeTrade(tx, timestamp) ==
    [transaction_hash |-> tx.hash, block_number |-> tx.block,
     subject |-> tx.subject, timestamp |-> timestamp, supply |-> tx.supply]

\* Scanner.get_trades: the trades of one block, in transaction order,
\* without those of the transactions (indexes in failed) whose decode task
\* ended in an exception
GetTrades(b, failed) ==
    LET results == [k \in 1..Len(ChainTxs(b)) |->
                       [k |-> k,
                        trade |-> DecodeTrade(ChainTxs(b)[k], BlockTimestamp(b))]]
        Decoded(res) == res.k \notin failed
        kept == SelectSeq(results, Decoded)
    IN  [n \in 1..Len(kept) |-> kept[n].trade]

\* every Trade event emitted in block b
EmittedHashes(b) == {ChainTxs(b)[k].hash : k \in 1..Len(ChainTxs(b))}

-----------------------------------------------------------------------------
(* db/operations.py *)

StoredHashes(table) == {table[i].transaction_hash : i \in 1..Len(table)}

\* mutant of MaxBlockNumber: MIN in place of MAX
MinBlockNumber(table) ==
    CHOOSE m \in {table[i].block_number : i \in 1..Len(table)} :
        \A i \in 1..Len(table) : table[i].block_number >= m

\* SELECT MAX(block_number) FROM trades, of a table with rows
MaxBlockNumber(table) ==
    CHOOSE m \in {table[i].block_number : i \in 1..Len(table)} :
        \A i \in 1..Len(table) : table[i].block_number <= m

\* get_last_block: last_block if last_block is not None else 0
get_last_block(table) ==
    IF table = <<>> THEN 0 ELSE MaxBlockNumber(table)

\* The statement of insert_trades is a plain INSERT (the ON CONFLICT text is
\* overwritten before use), and trades.transaction_hash is unique: a row
\* whose hash is stored already, or given twice, raises UniqueViolation.
HasConflict(table, batch) ==
    \/ \E i \in 1..Len(batch) : batch[i].transaction_hash \in StoredHashes(table)
    \/ \E i, j \in 1..Len(batch) :
          i < j /\ batch[i].transaction_hash = batch[j].transaction_hash

\* insert_trades: executemany is atomic, so a raise stores no row of the batch
insert_trades(table, batch) ==
    IF HasConflict(table, batch)
    THEN [table |-> table, raised |-> TRUE]
    ELSE [table |-> table \o batch, raised |-> FALSE]

ShareFields == {"address", "twitter_username", "twitter_name", "twitter_score",
                "registered", "last_transaction", "balance", "buy_price",
                "sell_price", "supply", "rank"}

\* get_all_share_addresses
get_all_share_addresses(table) == {table[i].address : i \in 1..Len(table)}

\* value is None, for a field of a Share; buy_price and sell_price are floats
\* made Decimal, never None
IsNone(share, f) == f \notin {"buy_price", "sell_price"} /\ share[f] = None

\* an UPDATE without its WHERE clause
UpdateRowEvery(row, share) ==
    [f \in ShareFields |->
        IF f # "address" /\ ~IsNone(share, f) THEN share[f] ELSE row[f]]

\* update_shares, one share: SET the non-None fields WHERE address = $1
UpdateRow(row, share) ==
    IF row.address # share.address THEN row
    ELSE [f \in ShareFields |->
            IF f # "address" /\ ~IsNone(share, f) THEN share[f] ELSE row[f]]

\* update_shares: the updates of all the shares, in order, in one transaction
RECURSIVE update_shares(_, _)
update_shares(table, shares) ==
    IF shares = <<>> THEN table
    ELSE update_shares([i \in 1..Len(table) |-> UpdateRow(table[i], shares[1])],
                       Tail(shares))

\* mutant of InsertShareRow: the INSERT without its ON CONFLICT clause
InsertShareRowAlways(table, share) == Append(table, share)

\* insert_shares, one share: INSERT ... ON CONFLICT (address) DO NOTHING
InsertShareRow(table, share) ==
    IF share.address \in get_all_share_addresses(table)
    THEN table ELSE Append(table, share)

RECURSIVE insert_shares(_, _)
insert_shares(table, shares) ==
    IF shares = <<>> THEN table
    ELSE insert_shares(InsertShareRow(table, shares[1]), Tail(shares))

-----------------------------------------------------------------------------
(* src/contract.py: prices are in wei. calc_price computes with Python      *)
(* ints, which have any size; the prices after fee are Python floats,      *)
(* because the fees are price * 0.05. Both are computed here digit by      *)
(* digit, as Python computes them. No value of the model leaves the range  *)
(* of the normal floats.                                                   *)

\* the width of the significand of a Python float (IEEE 754 binary64)
Precision == 53

\* the width of one limb of a Python int; a product of two limbs is below
\* 2^31
LimbWidth == 12

Base == 2^LimbWidth

\* a Python int n >= 0 of any size: its limbs, least significant first, none
\* for 0
RECURSIVE Limbs(_)
Limbs(n) == IF n = 0 THEN <<>> ELSE << n % Base >> \o Limbs(n \div Base)

Rest(a) == IF a = <<>> THEN <<>> ELSE Tail(a)

First(a) == IF a = <<>> THEN 0 ELSE a[1]

RECURSIVE Trim(_)
Trim(a) ==
    IF a = <<>> THEN <<>>
    ELSE IF a[Len(a)] = 0 THEN Trim(SubSeq(a, 1, Len(a) - 1)) ELSE a

\* a + b + carry
RECURSIVE AddLimbs(_, _, _)
AddLimbs(a, b, carry) ==
    IF a = <<>> /\ b = <<>> THEN Limbs(carry)
    ELSE LET t == First(a) + First(b) + carry
         IN  << t % Base >> \o AddLimbs(Rest(a), Rest(b), t \div Base)

\* a - b - borrow, for a >= b + borrow
RECURSIVE SubLimbs(_, _, _)
SubLimbs(a, b, borrow) ==
    IF a = <<>> THEN <<>>
    ELSE LET t == a[1] - First(b) - borrow
         IN  << (t + Base) % Base >> \o SubLimbs(Tail(a), Rest(b), IF t < 0 THEN 1 ELSE 0)

\* a * k + carry for one limb k
RECURSIVE MulLimb(_, _, _)
MulLimb(a, k, carry) ==
    IF a = <<>> THEN Limbs(carry)
    ELSE LET t == a[1] * k + carry
         IN  << t % Base >> \o MulLimb(Tail(a), k, t \div Base)

\* a * b
RECURSIVE MulLimbs(_, _)
MulLimbs(a, b) ==
    IF a = <<>> \/ b = <<>> THEN <<>>
    ELSE AddLimbs(MulLimb(b, a[1], 0), Trim(<< 0 >> \o MulLimbs(Tail(a), b)), 0)

\* a // d and a % d for d < 2^18
RECURSIVE DivMod(_, _)
DivMod(a, d) ==
    IF a = <<>> THEN [q |-> <<>>, r |-> 0]
    ELSE LET high == DivMod(Tail(a), d)
             n == high.r * Base + a[1]
         IN  [q |-> Trim(<< n \div d >> \o high.q), r |-> n % d]

\* a * 2^k and a // 2^k
ShiftLeft(a, k) ==
    Trim([i \in 1..(k \div LimbWidth) |-> 0] \o MulLimb(a, 2^(k % LimbWidth), 0))

ShiftRight(a, k) ==
    DivMod(SubSeq(a, k \div LimbWidth + 1, Len(a)), 2^(k % LimbWidth)).q

\* bit i of a, bit 0 the least significant
Bit(a, i) ==
    IF i \div LimbWidth >= Len(a) THEN 0
    ELSE (a[i \div LimbWidth + 1] \div 2^(i % LimbWidth)) % 2

RECURSIVE BitLength(_)
BitLength(a) ==
    IF a = <<>> THEN 0
    ELSE IF Len(a) > 1 THEN LimbWidth + BitLength(Tail(a))
    ELSE 1 + BitLength(Limbs(a[1] \div 2))

\* a float is [m, e]: the value m * 2^e with m odd, or m and e zero
RECURSIVE Float(_, _)
Float(m, e) ==
    IF m = <<>> THEN [m |-> <<>>, e |-> 0]
    ELSE IF m[1] = 0 THEN Float(Tail(m), e + LimbWidth)
    ELSE IF m[1] % 2 = 0 THEN Float(ShiftRight(m, 1), e + 1)
    ELSE [m |-> m, e |-> e]

\* m * 2^e rounded to the nearest float, ties to the even significand
Round(m, e) ==
    IF BitLength(m) <= Precision THEN Float(m, e)
    ELSE LET d == BitLength(m) - Precision
             kept == ShiftRight(m, d)
             half == Bit(m, d - 1) = 1
             sticky == \E i \in 0..(d - 2) : Bit(m, i) = 1
             up == half /\ (sticky \/ Bit(m, d) = 1)
         IN  Float(IF up THEN AddLimbs(kept, << 1 >>, 0) ELSE kept, e + d)

\* the significand of x when the exponent is lowered to e <= x.e
Aligned(x, e) == ShiftLeft(x.m, x.e - e)

\* of two floats, one of the lowest exponent
Lower(x, y) == IF x.e < y.e THEN x ELSE y

\* float(n) of an int n >= 0
float_of_int(n) == Round(n, 0)

\* x * y, x + y and x - y (for x >= y) of floats
float_mul(x, y) == Round(MulLimbs(x.m, y.m), x.e + y.e)

float_add(x, y) ==
    Round(AddLimbs(Aligned(x, Lower(x, y).e), Aligned(y, Lower(x, y).e), 0), Lower(x, y).e)

float_sub(x, y) ==
    Round(Trim(SubLimbs(Aligned(x, Lower(x, y).e), Aligned(y, Lower(x, y).e), 0)), Lower(x, y).e)

\* the float of the literal 0.05: 1/20 rounded to Precision bits
Point05 ==
    LET scaled == DivMod(ShiftLeft(<< 1 >>, Precision + 4), 20)
        up == 2 * scaled.r > 20 \/ (2 * scaled.r = 20 /\ scaled.q[1] % 2 = 1)
    IN  Float(IF up THEN AddLimbs(scaled.q, << 1 >>, 0) ELSE scaled.q,
              0 - (Precision + 4))

\* 10**18
Ether == MulLimbs(Limbs(1000000000), Limbs(1000000000))

calc_price(supply, amount) ==
    LET sum1 == IF supply = 0 THEN 0
                ELSE ((supply - 1) * supply * (2 * (supply - 1) + 1)) \div 6
        sum2 == IF supply = 0 /\ amount = 1 THEN 0
                ELSE ((supply - 1 + amount) * (supply + amount)
                        * (2 * (supply - 1 + amount) + 1)) \div 6
        summation == sum2 - sum1
    IN  DivMod(MulLimbs(Limbs(summation), Ether), 16000).q

calc_buy_price_after_fee(supply, amount) ==
    LET price == calc_price(supply, amount)
        protocol_fee == float_mul(float_of_int(price), Point05)
        subject_fee == float_mul(float_of_int(price), Point05)
    IN  float_add(float_add(float_of_int(price), protocol_fee), subject_fee)

\* mutant of calc_sell_price_after_fee: the price is taken at supply, not at
\* supply - amount
calc_sell_price_at_supply(supply, amount) ==
    LET price == calc_price(supply, amount)
        protocol_fee == float_mul(float_of_int(price), Point05)
        subject_fee == float_mul(float_of_int(price), Point05)
    IN  float_sub(float_sub(float_of_int(price), protocol_fee), subject_fee)

calc_sell_price_after_fee(supply, amount) ==
    LET price == calc_price(supply - amount, amount)
        protocol_fee == float_mul(float_of_int(price), Point05)
        subject_fee == float_mul(float_of_int(price), Point05)
    IN  float_sub(float_sub(float_of_int(price), protocol_fee), subject_fee)

\* the largest supply of a trade or of a Share
MaxShareSupply == 20

\* contract.calc_buy_price_after_fee(trade.supply, 1) and
\* contract.calc_sell_price_after_fee(trade.supply, 1), the prices of one
\* share that a Share holds, at each supply
BuyPriceOfOne ==
    [supply \in 0..MaxShareSupply |-> calc_buy_price_after_fee(supply, 1)]

SellPriceOfOne ==
    [supply \in 0..MaxShareSupply |-> calc_sell_price_after_fee(supply, 1)]

-----------------------------------------------------------------------------
(* process_trades_to_shares: the reducer *)

IndexOfSubject(reps, subject) ==
    IF \E i \in 1..Len(reps) : reps[i].subject = subject
    THEN CHOOSE i \in 1..Len(reps) : reps[i].subject = subject
    ELSE 0

\* mutant of ReduceStep: the comparison of the timestamps reversed
ReduceStepOldest(reps, trade) ==
    LET i == IndexOfSubject(reps, trade.subject)
    IN  IF i # 0
        THEN IF trade.timestamp < reps[i].timestamp
             THEN [reps EXCEPT ![i] = trade] ELSE reps
        ELSE Append(reps, trade)

\* one iteration of the loop over trades; reps is most_recent_trades.values()
ReduceStep(reps, trade) ==
    LET i == IndexOfSubject(reps, trade.subject)
    IN  IF i # 0
        THEN IF trade.timestamp > reps[i].timestamp
             THEN [reps EXCEPT ![i] = trade] ELSE reps
        ELSE Append(reps, trade)

RECURSIVE most_recent_trades(_)
most_recent_trades(trades) ==
    IF trades = <<>> THEN <<>>
    ELSE ReduceStep(most_recent_trades(SubSeq(trades, 1, Len(trades) - 1)),
                    trades[Len(trades)])

\* mutant of ShareData: registered is stamped on every share_data
ShareDataStamped(trade, balance, existing) ==
    [address |-> trade.subject,
     twitter_username |-> None, twitter_name |-> None, twitter_score |-> None,
     registered |-> trade.timestamp,
     last_transaction |-> trade.timestamp,
     balance |-> balance,
     buy_price |-> BuyPriceOfOne[trade.supply],
     sell_price |-> SellPriceOfOne[trade.supply],
     supply |-> trade.supply,
     rank |-> None]

\* share_data of one representative trade
ShareData(trade, balance, existing) ==
    [address |-> trade.subject,
     twitter_username |-> None, twitter_name |-> None, twitter_score |-> None,
     registered |-> IF trade.subject \in existing THEN None ELSE trade.timestamp,
     last_transaction |-> trade.timestamp,
     balance |-> balance,
     buy_price |-> BuyPriceOfOne[trade.supply],
     sell_price |-> SellPriceOfOne[trade.supply],
     supply |-> trade.supply,
     rank |-> None]

-----------------------------------------------------------------------------
(* scan_blockchain and handle_block_range *)

\* for i in range(start_block + 1, last_block + 1, batch_size)
NumRanges(start, last, bs) == (last - start + bs - 1) \div bs

RangeStart(start, bs, k) == start + 1 + (k - 1) * bs

\* mutant of RangeEnd: the end of the last sub-range is not clipped
RangeEndUnclipped(start, last, bs, k) == RangeStart(start, bs, k) + bs - 1

\* end_block = min(i + batch_size - 1, last_block)
RangeEnd(start, last, bs, k) == Min(RangeStart(start, bs, k) + bs - 1, last)

\* handle_block_range: for block_num in range(start, end)
BlocksOf(start, end) == start .. (end - 1)

NewRange(start, end) ==
    [start |-> start, end |-> end, pc |-> "pending",
     status |-> [b \in BlocksOf(start, end) |-> "todo"],
     failed |-> [b \in BlocksOf(start, end) |-> {}],
     ins |-> "idle", agg |-> "idle", exc |-> {},
     existing |-> {}, to_update |-> <<>>, to_create |-> <<>>]

MakeRanges(start, last, bs) ==
    [k \in 1..NumRanges(start, last, bs) |->
        NewRange(RangeStart(start, bs, k), RangeEnd(start, last, bs, k))]

\* flat_trades: the results that are neither empty nor an exception, chained
RECURSIVE FlatFrom(_, _)
FlatFrom(r, b) ==
    IF b \notin DOMAIN r.status THEN <<>>
    ELSE (IF r.status[b] = "ok" THEN GetTrades(b, r.failed[b]) ELSE <<>>)
             \o FlatFrom(r, b + 1)

flat_trades(r) == FlatFrom(r, r.start)

\* handle_block_range resumed after a gather: past the gather of the block
\* tasks (line 57) once none is left, to the two writes or, with no trade,
\* to its return; and after the gather of the writes (lines 68-72), once
\* both have ended, to its return, where its locals are dropped and
\* "async with semaphore" releases the permit
AfterGather(r) ==
    IF r.pc = "fetching" /\ \A b \in DOMAIN r.status : r.status[b] # "todo"
    THEN IF flat_trades(r) = <<>>
         THEN [r EXCEPT !.pc = "done"]
         ELSE [r EXCEPT !.pc = "writing", !.ins = "start", !.agg = "start"]
    ELSE IF r.pc = "writing" /\ r.ins = "done" /\ r.agg = "done"
    THEN [r EXCEPT !.pc = "done", !.existing = {},
                   !.to_update = <<>>, !.to_create = <<>>]
    ELSE r

Holding == {i \in 1..Len(ranges) : ranges[i].pc \in {"fetching", "writing"}}

NoScan == [b \in 1..MaxBlock |-> 0]

\* the chain grows by one block
ChainAdvance ==
    /\ chain_head < MaxBlock
    /\ chain_head' = chain_head + 1
    /\ UNCHANGED <<trades_table, shares_table, batch_size, cycles, faults, cycle_pc,
                   start_block, last_block, ranges, scanned>>
    /\ UNCHANGED <<insVars, selVars, redVars, auxVars>>

\* mutant of Wake: the loop ends with the first cycle that raises
WakeAfterSuccess ==
    /\ cycle_pc = "sleep"
    /\ cycle_pc' = "start"
    /\ UNCHANGED <<chain_head, trades_table, shares_table, batch_size, cycles, faults,
                   start_block, last_block, ranges, scanned>>
    /\ UNCHANGED <<insVars, selVars, redVars, auxVars>>

\* periodic_blockchain_scan: asyncio.sleep(interval) returns and the loop
\* calls scan_blockchain again, after a cycle that returned or raised
Wake ==
    /\ cycle_pc \in {"sleep", "failed"}
    /\ cycle_pc' = IF cycle_pc = "failed" THEN "restart" ELSE "start"
    /\ UNCHANGED <<chain_head, trades_table, shares_table, batch_size, cycles, faults,
                   start_block, last_block, ranges, scanned>>
    /\ UNCHANGED <<insVars, selVars, redVars, auxVars>>

\* get_last_block raises on a database error: the cycle is abandoned
CheckpointReadRaise ==
    /\ cycle_pc \in {"start", "restart"}
    /\ faults < MaxFaults
    /\ faults' = faults + 1
    /\ cycle_pc' = "failed"
    /\ UNCHANGED <<chain_head, trades_table, shares_table, batch_size, cycles,
                   start_block, last_block, ranges, scanned>>
    /\ UNCHANGED <<insVars, selVars, redVars, auxVars>>

\* scan_blockchain reads the checkpoint
CycleStart ==
    /\ cycle_pc \in {"start", "restart"}
    /\ start_block' = get_last_block(trades_table)
    /\ cycle_pc' = "read_head"
    /\ ranges' = <<>>
    /\ scanned' = NoScan
    /\ UNCHANGED <<chain_head, trades_table, shares_table, batch_size, cycles, faults, last_block>>
    /\ UNCHANGED <<insVars, selVars, redVars, auxVars>>

\* get_last_block_number raises: the cycle is abandoned
HeadReadRaise ==
    /\ cycle_pc = "read_head"
    /\ faults < MaxFaults
    /\ faults' = faults + 1
    /\ cycle_pc' = "failed"
    /\ UNCHANGED <<chain_head, trades_table, shares_table, batch_size, cycles,
                   start_block, last_block, ranges, scanned>>
    /\ UNCHANGED <<insVars, selVars, redVars, auxVars>>

\* the block numbers get_block_number may return: the selected endpoint is
\* at the head of the chain or up to MaxLag blocks behind it
HeadValues == {h \in (chain_head - MaxLag)..chain_head : h >= 0}

\* mutant of HeadRead: the cycle returns early only when start_block > last_block
HeadReadStrict(h) ==
    /\ cycle_pc = "read_head"
    /\ last_block' = h
    /\ IF start_block > h
       THEN cycle_pc' = "sleep" /\ ranges' = <<>> /\ cycles' = cycles
       ELSE /\ cycles < MaxCycles
            /\ cycle_pc' = "gather"
            /\ ranges' = MakeRanges(start_block, h, batch_size)
            /\ cycles' = cycles + 1
    /\ UNCHANGED <<chain_head, trades_table, shares_table, batch_size, faults,
                   start_block, scanned>>
    /\ UNCHANGED <<insVars, selVars, redVars, auxVars>>

\* get_last_block_number returns h; the sub-range tasks are created
HeadRead(h) ==
    /\ cycle_pc = "read_head"
    /\ last_block' = h
    /\ IF start_block >= h
       THEN cycle_pc' = "sleep" /\ ranges' = <<>> /\ cycles' = cycles
       ELSE /\ cycles < MaxCycles
            /\ cycle_pc' = "gather"
            /\ ranges' = MakeRanges(start_block, h, batch_size)
            /\ cycles' = cycles + 1
    /\ UNCHANGED <<chain_head, trades_table, shares_table, batch_size, faults,
                   start_block, scanned>>
    /\ UNCHANGED <<insVars, selVars, redVars, auxVars>>

\* mutant of Acquire: the sub-range does not wait for a permit
AcquireUnbounded(i) ==
    /\ cycle_pc = "gather"
    /\ ranges[i].pc = "pending"
    /\ \A j \in 1..(i - 1) : ranges[j].pc # "pending"
    /\ ranges' = [ranges EXCEPT ![i] = AfterGather([@ EXCEPT !.pc = "fetching"])]
    /\ UNCHANGED <<chain_head, trades_table, shares_table, batch_size, cycles, faults, cycle_pc,
                   start_block, last_block, scanned>>
    /\ UNCHANGED <<insVars, selVars, redVars, auxVars>>

\* bounded_handle_block_range: async with semaphore (waiters are served in
\* order); handle_block_range creates its block tasks and awaits their
\* gather. With no block in range(start, end) the gather of no task is done
\* at once and the coroutine goes on to its return without yielding
Acquire(i) ==
    /\ cycle_pc = "gather"
    /\ ranges[i].pc = "pending"
    /\ \A j \in 1..(i - 1) : ranges[j].pc # "pending"
    /\ Cardinality(Holding) < OuterLimit
    /\ ranges' = [ranges EXCEPT ![i] = AfterGather([@ EXCEPT !.pc = "fetching"])]
    /\ UNCHANGED <<chain_head, trades_table, shares_table, batch_size, cycles, faults, cycle_pc,
                   start_block, last_block, scanned>>
    /\ UNCHANGED <<insVars, selVars, redVars, auxVars>>

\* fetch_and_handle_trades(b): scanner.get_trades returns the trades of the
\* block's transactions, but for those whose decode task ended in an
\* exception (logged and left out of the result)
GetTradesReturn(i, b, failed) ==
    /\ cycle_pc = "gather"
    /\ ranges[i].pc = "fetching"
    /\ ranges[i].status[b] = "todo"
    /\ faults + Cardinality(failed) <= MaxFaults
    /\ faults' = faults + Cardinality(failed)
    /\ ranges' = [ranges EXCEPT ![i] = [@ EXCEPT !.status[b] = "ok",
                                                 !.failed[b] = failed]]
    /\ scanned' = [scanned EXCEPT ![b] = @ + 1]
    /\ UNCHANGED <<chain_head, trades_table, shares_table, batch_size, cycles, cycle_pc,
                   start_block, last_block>>
    /\ UNCHANGED <<insVars, selVars, redVars, auxVars>>

\* scanner.get_trades raises (the retries of the block fetch are used up)
GetTradesRaise(i, b) ==
    /\ cycle_pc = "gather"
    /\ faults < MaxFaults
    /\ faults' = faults + 1
    /\ ranges[i].pc = "fetching"
    /\ ranges[i].status[b] = "todo"
    /\ ranges' = [ranges EXCEPT ![i] = [@ EXCEPT !.status[b] = "exc"]]
    /\ scanned' = [scanned EXCEPT ![b] = @ + 1]
    /\ UNCHANGED <<chain_head, trades_table, shares_table, batch_size, cycles, cycle_pc,
                   start_block, last_block>>
    /\ UNCHANGED <<insVars, selVars, redVars, auxVars>>

\* insert_trades(db, flat_trades) runs to its end (stored, or UniqueViolation)
InsertTrades(i) ==
    /\ cycle_pc = "gather"
    /\ ranges[i].ins = "start"
    /\ trades_table' = insert_trades(trades_table, flat_trades(ranges[i])).table
    /\ ranges' = [ranges EXCEPT ![i] =
                    [@ EXCEPT !.ins = "done",
                              !.exc = IF insert_trades(trades_table,
                                             flat_trades(ranges[i])).raised
                                      THEN @ \cup {"ins"} ELSE @]]
    /\ UNCHANGED <<chain_head, shares_table, batch_size, cycles, faults, cycle_pc,
                   start_block, last_block, scanned>>
    /\ UNCHANGED <<insVars, selVars, redVars, auxVars>>

\* insert_trades raises on a database error
InsertTradesRaise(i) ==
    /\ cycle_pc = "gather"
    /\ faults < MaxFaults
    /\ faults' = faults + 1
    /\ ranges[i].ins = "start"
    /\ ranges' = [ranges EXCEPT ![i] =
                    [@ EXCEPT !.ins = "done", !.exc = @ \cup {"ins"}]]
    /\ UNCHANGED <<chain_head, trades_table, shares_table, batch_size, cycles, cycle_pc,
                   start_block, last_block, scanned>>
    /\ UNCHANGED <<insVars, selVars, redVars, auxVars>>

\* process_trades_to_shares: the trades are reduced and
\* existing_shares = await get_all_share_addresses(db) returns
AggRead(i) ==
    /\ cycle_pc = "gather"
    /\ ranges[i].agg = "start"
    /\ ranges' = [ranges EXCEPT ![i] =
                    [@ EXCEPT !.agg = "balances",
                              !.existing = get_all_share_addresses(shares_table)]]
    /\ UNCHANGED <<chain_head, trades_table, shares_table, batch_size, cycles, faults, cycle_pc,
                   start_block, last_block, scanned>>
    /\ UNCHANGED <<insVars, selVars, redVars, auxVars>>

\* the position after the share_data of a representative is appended: the
\* loop goes on, or the writes begin
AfterBalance(r) ==
    IF Len(r.to_update) + Len(r.to_create) < Len(most_recent_trades(flat_trades(r)))
    THEN r
    ELSE [r EXCEPT !.agg = IF r.to_update = <<>> THEN "updated" ELSE "classified"]

\* one iteration of the loop over unique_most_recent_trades:
\* balance = await scanner.get_balance(address_str) returns the balance at
\* the head of the chain, and the share_data joins shares_to_update or
\* shares_to_create
AggBalance(i) ==
    /\ cycle_pc = "gather"
    /\ ranges[i].agg = "balances"
    /\ LET r == ranges[i]
           reps == most_recent_trades(flat_trades(r))
           trade == reps[Len(r.to_update) + Len(r.to_create) + 1]
           share == ShareData(trade, ChainBalance(trade.subject, chain_head),
                              r.existing)
       IN  ranges' = [ranges EXCEPT ![i] =
                        AfterBalance(IF trade.subject \in r.existing
                                     THEN [r EXCEPT !.to_update = Append(@, share)]
                                     ELSE [r EXCEPT !.to_create = Append(@, share)])]
    /\ UNCHANGED <<chain_head, trades_table, shares_table, batch_size, cycles, faults, cycle_pc,
                   start_block, last_block, scanned>>
    /\ UNCHANGED <<insVars, selVars, redVars, auxVars>>

\* if shares_to_update: update_shares(db, valid_shares)
AggUpdate(i) ==
    /\ cycle_pc = "gather"
    /\ ranges[i].agg = "classified"
    /\ shares_table' = update_shares(shares_table, ranges[i].to_update)
    /\ ranges' = [ranges EXCEPT ![i] =
                    [@ EXCEPT !.agg = IF ranges[i].to_create = <<>>
                                      THEN "done" ELSE "updated"]]
    /\ UNCHANGED <<chain_head, trades_table, batch_size, cycles, faults, cycle_pc,
                   start_block, last_block, scanned>>
    /\ UNCHANGED <<insVars, selVars, redVars, auxVars>>

\* if shares_to_create: insert_shares(db, valid_shares)
AggInsert(i) ==
    /\ cycle_pc = "gather"
    /\ ranges[i].agg = "updated"
    /\ shares_table' = insert_shares(shares_table, ranges[i].to_create)
    /\ ranges' = [ranges EXCEPT ![i] = [@ EXCEPT !.agg = "done"]]
    /\ UNCHANGED <<chain_head, trades_table, batch_size, cycles, faults, cycle_pc,
                   start_block, last_block, scanned>>
    /\ UNCHANGED <<insVars, selVars, redVars, auxVars>>

\* mutant of AggRaise: the exception cancels the insert of the trades
AggRaiseCancels(i) ==
    /\ cycle_pc = "gather"
    /\ faults < MaxFaults
    /\ faults' = faults + 1
    /\ ranges[i].agg \in {"start", "balances", "classified", "updated"}
    /\ ranges' = [ranges EXCEPT ![i] =
                    [@ EXCEPT !.agg = "done", !.ins = "done",
                              !.exc = @ \cup {"agg"}, !.existing = {},
                              !.to_update = <<>>, !.to_create = <<>>]]
    /\ UNCHANGED <<chain_head, trades_table, shares_table, batch_size, cycles, cycle_pc,
                   start_block, last_block, scanned>>
    /\ UNCHANGED <<insVars, selVars, redVars, auxVars>>

\* process_trades_to_shares ends on an exception (a read that raises, or a
\* write that raises and is logged): nothing more is written
AggRaise(i) ==
    /\ cycle_pc = "gather"
    /\ faults < MaxFaults
    /\ faults' = faults + 1
    /\ ranges[i].agg \in {"start", "balances", "classified", "updated"}
    /\ ranges' = [ranges EXCEPT ![i] =
                    [@ EXCEPT !.agg = "done", !.exc = @ \cup {"agg"},
                              !.existing = {},
                              !.to_update = <<>>, !.to_create = <<>>]]
    /\ UNCHANGED <<chain_head, trades_table, shares_table, batch_size, cycles, cycle_pc,
                   start_block, last_block, scanned>>
    /\ UNCHANGED <<insVars, selVars, redVars, auxVars>>

\* the callback of a gather of handle_block_range: the coroutine resumes
\* after the gather of its block tasks or after the gather of its two writes
Settle(i) ==
    /\ cycle_pc = "gather"
    /\ ranges[i].pc \in {"fetching", "writing"}
    /\ AfterGather(ranges[i]) # ranges[i]
    /\ ranges' = [ranges EXCEPT ![i] = AfterGather(@)]
    /\ UNCHANGED <<chain_head, trades_table, shares_table, batch_size, cycles, faults, cycle_pc,
                   start_block, last_block, scanned>>
    /\ UNCHANGED <<insVars, selVars, redVars, auxVars>>

\* asyncio.gather(*batch_tasks) returns; the loop sleeps
CycleEnd ==
    /\ cycle_pc = "gather"
    /\ \A i \in 1..Len(ranges) : ranges[i].pc = "done"
    /\ cycle_pc' = "sleep"
    /\ UNCHANGED <<chain_head, trades_table, shares_table, batch_size, cycles, faults,
                   start_block, last_block, ranges, scanned>>
    /\ UNCHANGED <<insVars, selVars, redVars, auxVars>>

-----------------------------------------------------------------------------
(* Initial values of the parts a specification does not use *)

NoPicks == [r \in 1..NumRpcs |-> 0]

InsIdle == ins_batch = <<>> /\ ins_before = <<>> /\ ins_raised = FALSE
SelIdle ==
    /\ current_time = TimeStep
    /\ backoff_times = [r \in 1..NumRpcs |-> <<>>]
    /\ requests_counter = [r \in 1..NumRpcs |-> 0]
    /\ last_selected = [r \in 1..NumRpcs |-> 0]
    /\ in_flight = [r \in 1..NumRpcs |-> 0]
    /\ fair_run = <<>> /\ fair_clean = FALSE /\ fair_later = FALSE
    /\ worst = 0 /\ worst_run = NoPicks
RedIdle == red_trades = <<>> /\ red_out = <<>> /\ red_done = FALSE
NestIdle == nest = [ended |-> FALSE, ranges |-> <<>>]

EnrIdle ==
    enr = [pc |-> "idle", shares |-> <<>>, k |-> 0, attempt |-> 0, lookups |-> 0,
           data |-> <<>>, updated |-> <<>>, agg |-> 0, calls |-> 0, arg |-> <<>>,
           rolled |-> FALSE]

MoreIdle ==
    /\ fetch = [good |-> 0, calls |-> 0, waiting |-> 0, returned |-> 0, raised |-> 0]
    /\ blk_in = [block |-> 0, timestamp |-> 0, txs |-> <<>>, failed |-> {}]
    /\ blk_out = <<>>
    /\ EnrIdle
    /\ NestIdle
AuxIdle ==
    /\ price_in = [supply |-> 1, amount |-> 1] /\ price_out = <<>>
    /\ reads = <<>>
    /\ gt = <<>>
    /\ MoreIdle
ScanIdle ==
    /\ chain_head = 0 /\ trades_table = <<>> /\ shares_table = <<>>
    /\ batch_size = 1 /\ cycles = 0 /\ faults = 0 /\ cycle_pc = "sleep" /\ start_block = 0
    /\ last_block = 0 /\ ranges = <<>> /\ scanned = NoScan

-----------------------------------------------------------------------------
(* Spec: the scan cycles *)

Init ==
    /\ chain_head = 0
    /\ trades_table = <<>>
    /\ shares_table = <<>>
    /\ batch_size \in 1..MaxBatch
    /\ cycles = 0
    /\ faults = 0
    /\ cycle_pc = "sleep"
    /\ start_block = 0
    /\ last_block = 0
    /\ ranges = <<>>
    /\ scanned = NoScan
    /\ InsIdle /\ SelIdle /\ RedIdle /\ AuxIdle

ScanNext ==
    \/ ChainAdvance
    \/ Wake
    \/ CheckpointReadRaise
    \/ CycleStart
    \/ HeadReadRaise
    \/ \E h \in HeadValues : HeadRead(h)
    \/ \E i \in 1..Len(ranges) : Acquire(i)
    \/ \E i \in 1..Len(ranges) : \E b \in DOMAIN ranges[i].status :
          \E failed \in SUBSET (1..Len(ChainTxs(b))) : GetTradesReturn(i, b, failed)
    \/ \E i \in 1..Len(ranges) : \E b \in DOMAIN ranges[i].status : GetTradesRaise(i, b)
    \/ \E i \in 1..Len(ranges) : InsertTrades(i)
    \/ \E i \in 1..Len(ranges) : InsertTradesRaise(i)
    \/ \E i \in 1..Len(ranges) : AggRead(i)
    \/ \E i \in 1..Len(ranges) : AggBalance(i)
    \/ \E i \in 1..Len(ranges) : AggUpdate(i)
    \/ \E i \in 1..Len(ranges) : AggInsert(i)
    \/ \E i \in 1..Len(ranges) : AggRaise(i)
    \/ \E i \in 1..Len(ranges) : Settle(i)
    \/ CycleEnd

Next == ScanNext

Spec == Init /\ [][Next]_vars

\* the scan cycles of a program started with the largest batch size
InitLive == Init /\ batch_size = MaxBatch

\* the event loop resumes periodic_blockchain_scan when its sleep is over
SpecLive == InitLive /\ [][Next]_vars /\ WF_vars(Wake)

-----------------------------------------------------------------------------
(* SpecOuter: the semaphore of main() around handle_block_range, in the    *)
(* first cycle over a chain of up to MaxOuterBlocks blocks.  The body of   *)
(* handle_block_range, whose steps are those of Spec, is one step here: it *)
(* returns (it catches what its reads and writes raise) and the permit is  *)
(* released; its effect on the tables is left out.  The event loop runs    *)
(* every task that can run, hence the fairness.                            *)

MaxOuterBlocks == 14

\* handle_block_range returns; async with semaphore releases the permit
BlockRangeReturn(i) ==
    /\ cycle_pc = "gather"
    /\ ranges[i].pc = "fetching"
    /\ ranges' = [ranges EXCEPT ![i] = [@ EXCEPT !.pc = "done"]]
    /\ UNCHANGED <<chain_head, trades_table, shares_table, batch_size, cycles, faults, cycle_pc,
                   start_block, last_block, scanned>>
    /\ UNCHANGED <<insVars, selVars, redVars, auxVars>>

InitOuter ==
    /\ chain_head \in 1..MaxOuterBlocks
    /\ trades_table = <<>>
    /\ shares_table = <<>>
    /\ batch_size \in 1..MaxBatch
    /\ cycles = 0
    /\ faults = 0
    /\ cycle_pc = "gather"
    /\ start_block = 0
    /\ last_block = chain_head
    /\ ranges = MakeRanges(0, chain_head, batch_size)
    /\ scanned = NoScan
    /\ InsIdle /\ SelIdle /\ RedIdle /\ AuxIdle

NextOuter ==
    \/ \E i \in 1..Len(ranges) : Acquire(i)
    \/ \E i \in 1..Len(ranges) : BlockRangeReturn(i)
    \/ CycleEnd

SpecOuter == InitOuter /\ [][NextOuter]_vars /\ WF_vars(NextOuter)

-----------------------------------------------------------------------------
(* SpecInsert: insert_trades called with arbitrary batches of trades *)

MaxInsertLen == 2

TradeUniverse == Range(GetTrades(1, {})) \cup Range(GetTrades(2, {}))

RECURSIVE SeqsUpTo(_, _)
SeqsUpTo(S, n) ==
    IF n = 0 THEN {<<>>}
    ELSE LET shorter == SeqsUpTo(S, n - 1)
         IN  shorter \cup {Append(q, x) : q \in shorter, x \in S}

InsertBatches == SeqsUpTo(TradeUniverse, MaxInsertLen) \ {<<>>}

\* await insert_trades(db, batch)
InsertTradesCall(batch) ==
    /\ trades_table' = insert_trades(trades_table, batch).table
    /\ ins_raised' = insert_trades(trades_table, batch).raised
    /\ ins_batch' = batch
    /\ ins_before' = trades_table
    /\ UNCHANGED <<chain_head, shares_table, batch_size, cycles, faults, cycle_pc,
                   start_block, last_block, ranges, scanned>>
    /\ UNCHANGED <<selVars, redVars, auxVars>>

InitInsert == ScanIdle /\ InsIdle /\ SelIdle /\ RedIdle /\ AuxIdle

NextInsert == \E batch \in InsertBatches : InsertTradesCall(batch)

SpecInsert == InitInsert /\ [][NextInsert]_vars

-----------------------------------------------------------------------------
(* SpecSelector: Scanner._get_w3 and the failure log of the chain reads.   *)
(* The clock is read in steps of TimeStep seconds and never goes back; two *)
(* readings may be equal.                                                  *)

\* self.rpcs
rpcs == [r \in 1..NumRpcs |-> r]

\* recent_backoffs(rpc)
recent_backoffs(rpc, times, now) ==
    Cardinality({k \in 1..Len(times[rpc]) : now - times[rpc][k] < BackoffWindow})

\* backoff_ratio(a) < backoff_ratio(b), the ratio being
\* recent_backoffs(rpc) / (requests_counter.get(rpc, 0) + 0.000001)
RatioLess(a, b, times, counter, now) ==
    recent_backoffs(a, times, now) * (counter[b] * 1000000 + 1)
        < recent_backoffs(b, times, now) * (counter[a] * 1000000 + 1)

\* the sort key of a is smaller than that of b
KeyLess(a, b, times, counter, selected, now) ==
    \/ selected[a] - now < selected[b] - now
    \/ /\ selected[a] - now = selected[b] - now
       /\ \/ RatioLess(a, b, times, counter, now)
          \/ /\ ~RatioLess(b, a, times, counter, now)
             /\ counter[a] < counter[b]

\* mutant of SortedFirst: the list sorted in descending order
SortedLast(times, counter, selected, now) ==
    rpcs[CHOOSE i \in 1..NumRpcs :
            /\ \A j \in 1..NumRpcs :
                  ~KeyLess(rpcs[i], rpcs[j], times, counter, selected, now)
            /\ \A j \in 1..(i - 1) :
                  KeyLess(rpcs[j], rpcs[i], times, counter, selected, now)]

\* sorted_rpcs[0]: sorted is stable, so the first of the smallest keys
\* a selector that keeps returning the head of the configured list
SortedNever(times, counter, selected, now) == rpcs[1]

SortedFirst(times, counter, selected, now) ==
    rpcs[CHOOSE i \in 1..NumRpcs :
            /\ \A j \in 1..NumRpcs :
                  ~KeyLess(rpcs[j], rpcs[i], times, counter, selected, now)
            /\ \A j \in 1..(i - 1) :
                  KeyLess(rpcs[i], rpcs[j], times, counter, selected, now)]

\* equal health and equal request counts
Level(times, counter, now) ==
    \A a, b \in 1..NumRpcs :
        /\ ~RatioLess(a, b, times, counter, now)
        /\ counter[a] = counter[b]

NoRecentFailure(times, now) ==
    \A r \in 1..NumRpcs : recent_backoffs(r, times, now) = 0

\* the clock value the latest selector call read (0 before the first)
LastCallTime ==
    CHOOSE t \in {last_selected[r] : r \in 1..NumRpcs} :
        \A r \in 1..NumRpcs : last_selected[r] <= t

\* an endpoint with recent failures on at least half of its requests while
\* no other endpoint has a recent failure; 0 when there is none
WorstRpc(times, counter, now) ==
    LET Bad(w) == /\ 2 * recent_backoffs(w, times, now) >= counter[w]
                  /\ recent_backoffs(w, times, now) > 0
                  /\ \A p \in 1..NumRpcs :
                        p # w => recent_backoffs(p, times, now) = 0
    IN  IF \E w \in 1..NumRpcs : Bad(w)
        THEN CHOOSE w \in 1..NumRpcs : Bad(w) ELSE 0

TotalFailures == LET RECURSIVE Sum(_)
                     Sum(r) == IF r = 0 THEN 0 ELSE Len(backoff_times[r]) + Sum(r - 1)
                 IN  Sum(NumRpcs)

TotalCalls == LET RECURSIVE Sum(_)
                  Sum(r) == IF r = 0 THEN 0 ELSE requests_counter[r] + Sum(r - 1)
              IN  Sum(NumRpcs)

TotalInFlight == LET RECURSIVE Sum(_)
                     Sum(r) == IF r = 0 THEN 0 ELSE in_flight[r] + Sum(r - 1)
                 IN  Sum(NumRpcs)

scanFrame == UNCHANGED <<scanVars, insVars, redVars, auxVars>>

\* time() advances
Tick ==
    /\ current_time < (MaxTicks + 1) * TimeStep
    /\ current_time' = current_time + TimeStep
    /\ UNCHANGED <<backoff_times, requests_counter, last_selected, in_flight,
                   fair_run, fair_clean, fair_later, worst, worst_run>>
    /\ scanFrame

\* the selector counting a request against every endpoint
count_request_all(counter, rpc) == [r \in DOMAIN counter |-> counter[r] + 1]

\* self.requests_counter[rpc] = self.requests_counter.get(rpc, 0) + 1
count_request(counter, rpc) == [counter EXCEPT ![rpc] = @ + 1]

\* self.last_selected[rpc] = current_time
stamp_selected(selected, rpc, now) == [selected EXCEPT ![rpc] = now]

\* a chain read calls self._get_w3()
GetW3 ==
    /\ TotalCalls < MaxCalls
    /\ TotalInFlight < MaxInFlight
    /\ LET rpc == SortedFirst(backoff_times, requests_counter, last_selected,
                              current_time)
           w == WorstRpc(backoff_times, requests_counter, current_time)
       IN  /\ requests_counter' = count_request(requests_counter, rpc)
           /\ last_selected' = stamp_selected(last_selected, rpc, current_time)
           /\ in_flight' = [in_flight EXCEPT ![rpc] = @ + 1]
           /\ IF Level(backoff_times, requests_counter, current_time)
              THEN /\ fair_run' = <<rpc>>
                   /\ fair_clean' = NoRecentFailure(backoff_times, current_time)
                   /\ fair_later' = (current_time > LastCallTime)
              ELSE IF fair_run # <<>> /\ Len(fair_run) < NumRpcs
              THEN /\ fair_run' = Append(fair_run, rpc)
                   /\ fair_clean' = fair_clean
                   /\ fair_later' = fair_later
              ELSE fair_run' = <<>> /\ fair_clean' = FALSE /\ fair_later' = FALSE
           /\ worst' = w
           /\ worst_run' = IF w = 0 THEN NoPicks
                           ELSE IF w = worst THEN [worst_run EXCEPT ![rpc] = @ + 1]
                           ELSE [NoPicks EXCEPT ![rpc] = 1]
    /\ UNCHANGED <<current_time, backoff_times>>
    /\ scanFrame

\* the read on rpc returns
ReadReturn(rpc) ==
    /\ in_flight[rpc] > 0
    /\ in_flight' = [in_flight EXCEPT ![rpc] = @ - 1]
    /\ UNCHANGED <<current_time, backoff_times, requests_counter, last_selected,
                   fair_run, fair_clean, fair_later, worst, worst_run>>
    /\ scanFrame

\* the read on rpc raises: self.backoff_times[rpc].append(time())
ReadRaise(rpc) ==
    /\ in_flight[rpc] > 0
    /\ TotalFailures < MaxFailures
    /\ in_flight' = [in_flight EXCEPT ![rpc] = @ - 1]
    /\ backoff_times' = [backoff_times EXCEPT ![rpc] = Append(@, current_time)]
    /\ fair_run' = <<>> /\ fair_clean' = FALSE /\ fair_later' = FALSE
    /\ UNCHANGED <<current_time, requests_counter, last_selected, worst, worst_run>>
    /\ scanFrame

InitSelector == ScanIdle /\ InsIdle /\ SelIdle /\ RedIdle /\ AuxIdle

NextSelector ==
    \/ Tick
    \/ GetW3
    \/ \E rpc \in 1..NumRpcs : ReadReturn(rpc)
    \/ \E rpc \in 1..NumRpcs : ReadRaise(rpc)

SpecSelector == InitSelector /\ [][NextSelector]_vars

-----------------------------------------------------------------------------
(* SpecReducer: the reducer of process_trades_to_shares on arbitrary        *)
(* batches.  The k-th trade of a batch has transaction_hash k.             *)

Timestamps == {10 * t : t \in 1..MaxTimestamp}

ReducerTrade(k, subject, timestamp) ==
    [transaction_hash |-> k, block_number |-> timestamp, subject |-> subject,
     timestamp |-> timestamp, supply |-> k]

ReducerBatches ==
    UNION {{[k \in 1..n |-> ReducerTrade(k, f[k][1], f[k][2])] :
                f \in [1..n -> Subjects \X Timestamps]} : n \in 1..MaxTrades}

\* process_trades_to_shares(db, scanner, red_trades), up to
\* unique_most_recent_trades
ReducerCall ==
    /\ ~red_done
    /\ red_out' = most_recent_trades(red_trades)
    /\ red_done' = TRUE
    /\ UNCHANGED red_trades
    /\ UNCHANGED <<scanVars, insVars, selVars, auxVars>>

InitReducer ==
    /\ ScanIdle /\ InsIdle /\ SelIdle /\ AuxIdle
    /\ red_trades \in ReducerBatches
    /\ red_out = <<>>
    /\ red_done = FALSE

NextReducer == ReducerCall

SpecReducer == InitReducer /\ [][NextReducer]_vars

-----------------------------------------------------------------------------
(* SpecReads: the four chain reads of the Scanner.  Each attempt selects   *)
(* its endpoint with _get_w3; _filter_transactions and                     *)
(* _decode_trade_events are wrapped in backoff.on_exception(Exception,     *)
(* max_tries = MaxTries), get_last_block_number and get_balance are not.   *)
(* A read is [kind, bad, state, rpc, tries, last]: bad tells that the      *)
(* transaction's log fails Trade validation; state is "select" (about to   *)
(* call _get_w3), "await" (request sent to rpc), "returned" or "raised"    *)
(* (to the caller); tries counts the attempts; last is the outcome of the  *)
(* latest attempt: "ok", "error" (the endpoint failed) or "invalid" (the   *)
(* endpoint served the receipt and model_validate raised).                 *)

MaxReads == 1
MaxAttempts == 3

ReadKinds == {"block", "receipt", "head", "balance"}

\* the reads decorated with backoff.on_exception
Retried == {"block", "receipt"}

\* mutant of FailureLog: the failure goes to the log of the first endpoint
FailureLogFirst(times, rpc, now) == [times EXCEPT ![rpcs[1]] = Append(@, now)]

\* a failure logged twice
FailureLogTwice(times, rpc, now) == [times EXCEPT ![rpc] = Append(Append(@, now), now)]

\* self.backoff_times[rpc].append(time())
FailureLog(times, rpc, now) == [times EXCEPT ![rpc] = Append(@, now)]

\* raise e: backoff calls the method again unless its tries are used up
AfterFailure(read) ==
    IF read.kind \in Retried /\ read.tries < MaxTries THEN "select" ELSE "raised"

readFrame ==
    UNCHANGED <<scanVars, insVars, redVars, priceVars, gt, moreVars, in_flight,
                fair_run, fair_clean, fair_later, worst, worst_run>>

\* a caller awaits one of the four reads
StartRead(kind, bad) ==
    /\ Len(reads) < MaxReads
    /\ bad => kind = "receipt"
    /\ reads' = Append(reads, [kind |-> kind, bad |-> bad, state |-> "select",
                               rpc |-> 0, tries |-> 0, last |-> "none"])
    /\ UNCHANGED <<current_time, backoff_times, requests_counter, last_selected>>
    /\ readFrame

\* web3, rpc = await self._get_w3(), then the request is sent
Select(o, limit) ==
    /\ reads[o].state = "select"
    /\ TotalCalls < limit
    /\ LET rpc == SortedFirst(backoff_times, requests_counter, last_selected,
                              current_time)
       IN  /\ requests_counter' = count_request(requests_counter, rpc)
           /\ last_selected' = stamp_selected(last_selected, rpc, current_time)
           /\ reads' = [reads EXCEPT ![o] = [@ EXCEPT !.state = "await", !.rpc = rpc,
                                                     !.tries = @ + 1]]
    /\ UNCHANGED <<current_time, backoff_times>>
    /\ readFrame

SelectEndpoint(o) == Select(o, MaxAttempts)

\* the endpoint answers; the receipt of a transaction whose log fails
\* validation raises ValidationError inside the try of _decode_trade_events
EndpointServes(o) ==
    /\ reads[o].state = "await"
    /\ IF reads[o].kind = "receipt" /\ reads[o].bad
       THEN /\ backoff_times' = FailureLog(backoff_times, reads[o].rpc, current_time)
            /\ reads' = [reads EXCEPT ![o] = [@ EXCEPT !.state = AfterFailure(reads[o]),
                                                      !.last = "invalid"]]
       ELSE /\ backoff_times' = backoff_times
            /\ reads' = [reads EXCEPT ![o] = [@ EXCEPT !.state = "returned",
                                                      !.last = "ok"]]
    /\ UNCHANGED <<current_time, requests_counter, last_selected>>
    /\ readFrame

\* the request fails (network error, timeout, malformed response)
EndpointFails(o) ==
    /\ reads[o].state = "await"
    /\ backoff_times' = FailureLog(backoff_times, reads[o].rpc, current_time)
    /\ reads' = [reads EXCEPT ![o] = [@ EXCEPT !.state = AfterFailure(reads[o]),
                                              !.last = "error"]]
    /\ UNCHANGED <<current_time, requests_counter, last_selected>>
    /\ readFrame

InitReads == ScanIdle /\ InsIdle /\ SelIdle /\ RedIdle /\ AuxIdle

NextReads ==
    \/ Tick
    \/ \E kind \in ReadKinds : \E bad \in BOOLEAN : StartRead(kind, bad)
    \/ \E o \in 1..Len(reads) : SelectEndpoint(o)
    \/ \E o \in 1..Len(reads) : EndpointServes(o)
    \/ \E o \in 1..Len(reads) : EndpointFails(o)

SpecReads == InitReads /\ [][NextReads]_vars

-----------------------------------------------------------------------------
(* SpecFetch: up to MaxCallers concurrent _filter_transactions calls, each *)
(* retried by backoff, against a pool in which endpoint fetch.good always  *)
(* answers and every other endpoint may answer or fail.  The callers are   *)
(* alike, so fetch counts them: calls made, waiting (about to call         *)
(* _get_w3, for the first time or after a failure) and returned; in_flight *)
(* counts the callers awaiting each endpoint.                              *)

MaxCallers == 2

\* the selections the callers may make between them; C22 shows that no
\* caller ever waits for one, so that the budget cuts off no behaviour
FetchLimit == MaxCallers * NumRpcs

fetchFrame ==
    UNCHANGED <<scanVars, insVars, redVars, priceVars, reads, gt, blk_in, blk_out,
                enr, nest, fair_run, fair_clean, fair_later, worst, worst_run>>

\* time() advances
FetchTick ==
    /\ current_time < (MaxTicks + 1) * TimeStep
    /\ current_time' = current_time + TimeStep
    /\ UNCHANGED <<backoff_times, requests_counter, last_selected, in_flight, fetch>>
    /\ fetchFrame

\* a task awaits scanner._filter_transactions(block_number)
FetchCall ==
    /\ fetch.calls < MaxCallers
    /\ fetch' = [fetch EXCEPT !.calls = @ + 1, !.waiting = @ + 1]
    /\ UNCHANGED <<current_time, backoff_times, requests_counter, last_selected,
                   in_flight>>
    /\ fetchFrame

\* web3, rpc = await self._get_w3(), then the request is sent
FetchSelect ==
    /\ fetch.waiting > 0
    /\ TotalCalls < FetchLimit
    /\ LET rpc == SortedFirst(backoff_times, requests_counter, last_selected,
                              current_time)
       IN  /\ requests_counter' = count_request(requests_counter, rpc)
           /\ last_selected' = stamp_selected(last_selected, rpc, current_time)
           /\ in_flight' = [in_flight EXCEPT ![rpc] = @ + 1]
    /\ fetch' = [fetch EXCEPT !.waiting = @ - 1]
    /\ UNCHANGED <<current_time, backoff_times>>
    /\ fetchFrame

\* await web3.eth.get_block(block_number, True) returns and the call returns
FetchServes(rpc) ==
    /\ in_flight[rpc] > 0
    /\ in_flight' = [in_flight EXCEPT ![rpc] = @ - 1]
    /\ fetch' = [fetch EXCEPT !.returned = @ + 1]
    /\ UNCHANGED <<current_time, backoff_times, requests_counter, last_selected>>
    /\ fetchFrame

\* the request raises, on an endpoint other than the one that always
\* answers: the failure is logged and backoff calls the method again
FetchFails(rpc) ==
    /\ rpc # fetch.good
    /\ in_flight[rpc] > 0
    /\ in_flight' = [in_flight EXCEPT ![rpc] = @ - 1]
    /\ backoff_times' = FailureLog(backoff_times, rpc, current_time)
    /\ fetch' = IF TotalCalls < MaxTries    \* a caller's tries are among them
                THEN [fetch EXCEPT !.waiting = @ + 1]
                ELSE [fetch EXCEPT !.raised = @ + 1]
    /\ UNCHANGED <<current_time, requests_counter, last_selected>>
    /\ fetchFrame

InitFetch ==
    /\ ScanIdle /\ InsIdle /\ SelIdle /\ RedIdle
    /\ price_in = [supply |-> 1, amount |-> 1] /\ price_out = <<>>
    /\ reads = <<>> /\ gt = <<>>
    /\ fetch \in [good : 1..NumRpcs, calls : {0}, waiting : {0}, returned : {0},
                  raised : {0}]
    /\ blk_in = [block |-> 0, timestamp |-> 0, txs |-> <<>>, failed |-> {}]
    /\ blk_out = <<>>
    /\ EnrIdle
    /\ NestIdle

NextFetch ==
    \/ FetchTick
    \/ FetchCall
    \/ FetchSelect
    \/ \E rpc \in 1..NumRpcs : FetchServes(rpc)
    \/ \E rpc \in 1..NumRpcs : FetchFails(rpc)

\* every step of SpecFetch uses up a call, a selection, a request or a clock
\* value, so that weak fairness of the whole relation runs every caller that
\* can run and ends every request
SpecFetch == InitFetch /\ [][NextFetch]_vars /\ WF_vars(NextFetch)

-----------------------------------------------------------------------------
(* SpecDecode: Scanner.get_trades.  A call is [pc, txs, todo, flight]: pc  *)
(* is "filter" (in _filter_transactions), "wait" (at async with            *)
(* self.semaphore), "decoding" (in the gather of the decode tasks, holding *)
(* the semaphore) or "done"; txs is the number of relevant transactions of *)
(* its block, todo the decode tasks not yet started, flight the            *)
(* _decode_trade_events calls that have started and not ended.             *)

MaxGetTrades == 2
MaxTxs == 6

DecodesInFlight == LET RECURSIVE Sum(_)
                       Sum(c) == IF c = 0 THEN 0 ELSE gt[c].flight + Sum(c - 1)
                   IN  Sum(Len(gt))

SemHolders == {c \in 1..Len(gt) : gt[c].pc = "decoding"}

decodeFrame ==
    UNCHANGED <<scanVars, insVars, selVars, redVars, priceVars, reads, moreVars>>

\* fetch_and_handle_trades calls scanner.get_trades(block_num)
GetTradesCall ==
    /\ Len(gt) < MaxGetTrades
    /\ gt' = Append(gt, [pc |-> "filter", txs |-> 0, todo |-> 0, flight |-> 0])
    /\ decodeFrame

\* _filter_transactions returns the n relevant transactions of the block
FilterReturn(c, n) ==
    /\ gt[c].pc = "filter"
    /\ gt' = [gt EXCEPT ![c] = [@ EXCEPT !.pc = "wait", !.txs = n]]
    /\ decodeFrame

\* async with self.semaphore: one permit for the call, then the decode
\* tasks of all its transactions are created and gathered; the gather of
\* no task is done at once, and the call returns without yielding
SemAcquire(c) ==
    /\ gt[c].pc = "wait"
    /\ Cardinality(SemHolders) < ScannerSem
    /\ gt' = [gt EXCEPT ![c] = IF gt[c].txs = 0
                                THEN [@ EXCEPT !.pc = "done"]
                                ELSE [@ EXCEPT !.pc = "decoding", !.todo = gt[c].txs]]
    /\ decodeFrame

\* a decode task starts: _decode_trade_events asks for the receipt
DecodeStart(c) ==
    /\ gt[c].pc = "decoding"
    /\ gt[c].todo > 0
    /\ gt' = [gt EXCEPT ![c] = [@ EXCEPT !.todo = @ - 1, !.flight = @ + 1]]
    /\ decodeFrame

\* a decode task ends (its trades, or the exception the gather keeps); the
\* call keeps its permit until get_trades resumes
DecodeEnd(c) ==
    /\ gt[c].pc = "decoding"
    /\ gt[c].flight > 0
    /\ gt' = [gt EXCEPT ![c] = [@ EXCEPT !.flight = @ - 1]]
    /\ decodeFrame

\* the callback of the gather: every decode task has ended, get_trades
\* resumes, collects the results, leaves async with (the permit is
\* released) and returns
GetTradesResume(c) ==
    /\ gt[c].pc = "decoding"
    /\ gt[c].todo = 0
    /\ gt[c].flight = 0
    /\ gt' = [gt EXCEPT ![c] = [@ EXCEPT !.pc = "done"]]
    /\ decodeFrame

InitDecode == ScanIdle /\ InsIdle /\ SelIdle /\ RedIdle /\ AuxIdle

NextDecode ==
    \/ GetTradesCall
    \/ \E c \in 1..Len(gt) : \E n \in 0..MaxTxs : FilterReturn(c, n)
    \/ \E c \in 1..Len(gt) : SemAcquire(c)
    \/ \E c \in 1..Len(gt) : DecodeStart(c)
    \/ \E c \in 1..Len(gt) : DecodeEnd(c)
    \/ \E c \in 1..Len(gt) : GetTradesResume(c)

SpecDecode == InitDecode /\ [][NextDecode]_vars

-----------------------------------------------------------------------------
(* SpecBlock: Scanner.get_trades on one block, receipt by receipt.  A      *)
(* relevant transaction k of the block has the receipt [hash, block,       *)
(* status, logs]; a log is [topic, subject, supply], where topic stands    *)
(* for to_hex(log['topics'][0]).  blk_in.failed holds the transactions     *)
(* whose _decode_trade_events task ends in an exception.                   *)

MaxBlockTxs == 2
MaxLogs == 2

\* EVENT_SIGNUTARE, the hash of the Trade event signature
EventSignature == "Trade"

Topics == {EventSignature, "Other"}

\* the j-th log of transaction k: its arguments tell the logs apart
ChainLog(k, j, topic) ==
    [topic |-> topic, subject |-> IF j % 2 = 1 THEN "0xa1" ELSE "0xa2",
     supply |-> 10 * k + j]

\* web3.eth.get_transaction_receipt(transaction['hash'])
Receipt(k, b, shape) ==
    [hash |-> k, block |-> b, status |-> shape.status,
     logs |-> [j \in 1..Len(shape.topics) |-> ChainLog(k, j, shape.topics[j])]]

ReceiptShapes == [status : {0, 1}, topics : SeqsUpTo(Topics, MaxLogs)]

\* the Trade built from a decoded log
LogTrade(receipt, log, timestamp) ==
    [transaction_hash |-> receipt.hash, block_number |-> receipt.block,
     subject |-> log.subject, timestamp |-> timestamp, supply |-> log.supply]

\* for log in tx_receipt['logs']: if the first topic is the signature hash,
\* decode the log and append its trade
RECURSIVE LogsToTrades(_, _, _)
LogsToTrades(receipt, logs, timestamp) ==
    IF logs = <<>> THEN <<>>
    ELSE (IF logs[1].topic = EventSignature
          THEN << LogTrade(receipt, logs[1], timestamp) >> ELSE <<>>)
         \o LogsToTrades(receipt, Tail(logs), timestamp)

\* a decoder that does not look at the receipt's status
decode_any_status(receipt, timestamp) ==
    LogsToTrades(receipt, receipt.logs, timestamp)

\* Scanner._decode_trade_events, when it returns
decode_trade_events(receipt, timestamp) ==
    IF receipt.status = 1 THEN LogsToTrades(receipt, receipt.logs, timestamp)
    ELSE <<>>

\* a gather that gives up the block when a task raised
RECURSIVE gather_or_nothing(_, _, _, _)
gather_or_nothing(receipts, timestamp, failed, k) ==
    IF failed # {} THEN <<>>
    ELSE IF k > Len(receipts) THEN <<>>
    ELSE decode_trade_events(receipts[k], timestamp)
         \o gather_or_nothing(receipts, timestamp, failed, k + 1)

\* results = await asyncio.gather(*decode_tasks, return_exceptions=True);
\* for res in results: an exception is logged, a list extends trades
RECURSIVE gather_trades(_, _, _, _)
gather_trades(receipts, timestamp, failed, k) ==
    IF k > Len(receipts) THEN <<>>
    ELSE (IF k \in failed THEN <<>>
          ELSE decode_trade_events(receipts[k], timestamp))
         \o gather_trades(receipts, timestamp, failed, k + 1)

BlockInputs ==
    { [block |-> b, timestamp |-> BlockTimestamp(b),
       txs |-> [k \in 1..Len(shapes) |-> Receipt(k, b, shapes[k])],
       failed |-> failed] :
        b \in {MaxBlock}, shapes \in SeqsUpTo(ReceiptShapes, MaxBlockTxs),
        failed \in SUBSET (1..MaxBlockTxs) }

\* scanner.get_trades(block_number) returns
GetTradesOnBlock ==
    /\ blk_out = <<>>
    /\ blk_out' = << gather_trades(blk_in.txs, blk_in.timestamp, blk_in.failed, 1) >>
    /\ UNCHANGED <<blk_in, fetch, enr, nest, priceVars, reads, gt>>
    /\ UNCHANGED <<scanVars, insVars, selVars, redVars>>

InitBlock ==
    /\ ScanIdle /\ InsIdle /\ SelIdle /\ RedIdle
    /\ price_in = [supply |-> 1, amount |-> 1] /\ price_out = <<>>
    /\ reads = <<>> /\ gt = <<>>
    /\ fetch = [good |-> 0, calls |-> 0, waiting |-> 0, returned |-> 0, raised |-> 0]
    /\ blk_in \in {in \in BlockInputs : in.failed \subseteq 1..Len(in.txs)}
    /\ blk_out = <<>>
    /\ EnrIdle
    /\ NestIdle

NextBlock == GetTradesOnBlock

SpecBlock == InitBlock /\ [][NextBlock]_vars

-----------------------------------------------------------------------------
(* SpecEnrich: one pass of update_twitter_info beside the aggregator.  The *)
(* pass reads the Shares without twitter_username, looks each one up (up   *)
(* to max_attempts times) and hands the Share objects it read, with their  *)
(* twitter fields set, to update_shares; meanwhile the aggregator may      *)
(* update a Share for a new trade.  enr is [pc, shares, k, attempt,        *)
(* lookups, data, updated, agg, calls, arg, rolled]: shares are the        *)
(* objects read, k the index of the one being looked up, attempt the       *)
(* loop's counter, lookups the calls of get_info_from_address that have    *)
(* ended for that share, data what the last of them returned while         *)
(* get_twitter_score is awaited (<<twitterUsername>>, else <<>>), updated  *)
(* the list updated_shares, agg the aggregator's updates so far; calls,    *)
(* arg and rolled describe the update_shares calls: how many, the argument *)
(* of the last one and whether its transaction was rolled back.  pc is     *)
(* "lookup" in the while loop of a share: get_info_from_address is         *)
(* awaited while data is empty, get_twitter_score while it is not.         *)
(* Strings are numbered.                                                   *)

MaxAggWrites == 1

\* update_twitter_info(db, max_attempts=10)
max_attempts == 10

\* get_shares_missing_twitter(db, 30)
EnrichLimit == 30

\* "not_found" / "Not Found"
not_found == 0

\* a twitterUsername / twitterName served by the lookup
Handle == 1

TwitterFields == {"twitter_username", "twitter_name", "twitter_score", "rank"}

\* a row of shares as the aggregator left it after the trade at timestamp ts
EnrichRow(address, ts, supply, twitter) ==
    [address |-> address,
     twitter_username |-> twitter, twitter_name |-> twitter,
     twitter_score |-> IF twitter = None THEN None ELSE 0,
     registered |-> ts, last_transaction |-> ts,
     balance |-> ChainBalance(address, ts),
     buy_price |-> BuyPriceOfOne[supply],
     sell_price |-> SellPriceOfOne[supply],
     supply |-> supply,
     rank |-> IF twitter = None THEN None ELSE 0]

EnrichTables ==
    { << EnrichRow("0xa1", 2, 2, None) >>,
      << EnrichRow("0xa1", 2, 2, Handle) >>,
      << EnrichRow("0xa1", 2, 2, None), EnrichRow("0xa2", 4, 3, None) >>,
      << EnrichRow("0xa1", 2, 2, None), EnrichRow("0xa2", 4, 3, Handle) >> }

\* ORDER BY balance DESC
RECURSIVE ByBalanceDesc(_)
ByBalanceDesc(rows) ==
    IF rows = <<>> THEN <<>>
    ELSE LET top == CHOOSE i \in 1..Len(rows) :
                        \A j \in 1..Len(rows) :
                            \/ rows[i].balance > rows[j].balance
                            \/ rows[i].balance = rows[j].balance /\ i <= j
         IN  << rows[top] >>
             \o ByBalanceDesc([j \in 1..(Len(rows) - 1) |->
                                  IF j < top THEN rows[j] ELSE rows[j + 1]])

\* get_shares_missing_twitter: SELECT * ... WHERE twitter_username IS NULL
\* ORDER BY balance DESC LIMIT $1, each row as a Share
get_shares_missing_twitter(table, limit) ==
    LET missing == ByBalanceDesc(SelectSeq(table, LAMBDA r : r.twitter_username = None))
    IN  SubSeq(missing, 1, Min(limit, Len(missing)))

enrichFrame ==
    UNCHANGED <<chain_head, trades_table, batch_size, cycles, faults, cycle_pc, start_block,
                last_block, ranges, scanned, insVars, selVars, redVars, priceVars,
                reads, gt, fetch, blk_in, blk_out, nest>>

\* shares = await get_shares_missing_twitter(db, 30); return if none
EnrichRead ==
    /\ enr.pc = "idle"
    /\ LET shares == get_shares_missing_twitter(shares_table, EnrichLimit)
       IN  enr' = [enr EXCEPT !.pc = IF shares = <<>> THEN "done" ELSE "lookup",
                              !.shares = shares, !.k = 1, !.attempt = 0]
    /\ UNCHANGED shares_table
    /\ enrichFrame

\* the loop moves on to the next share, or ends
NextShare(e) ==
    [e EXCEPT !.k = @ + 1, !.attempt = 0, !.lookups = 0,
              !.pc = IF e.k = Len(e.shares) THEN "write" ELSE "lookup"]

\* friendtech_data = await friend_tech.get_info_from_address(address_str)
\* returns data, with or without a twitterUsername
LookupAnswers(username) ==
    /\ enr.pc = "lookup" /\ enr.data = <<>>
    /\ enr.attempt < max_attempts
    /\ enr' = [enr EXCEPT !.lookups = @ + 1, !.data = << username >>]
    /\ UNCHANGED shares_table
    /\ enrichFrame

\* get_info_from_address returns None, or raises: attempt += 1
LookupFails ==
    /\ enr.pc = "lookup" /\ enr.data = <<>>
    /\ enr.attempt < max_attempts
    /\ enr' = [enr EXCEPT !.attempt = @ + 1, !.lookups = @ + 1]
    /\ UNCHANGED shares_table
    /\ enrichFrame

\* twitter_data = await twitter_score.get_twitter_score(...) returns None,
\* or data with 'success' (score 0 unless success): the share object gets
\* its twitter fields and joins updated_shares
LookupFound(score) ==
    /\ enr.pc = "lookup" /\ enr.data # <<>>
    /\ LET share == [enr.shares[enr.k] EXCEPT !.twitter_username = enr.data[1],
                                              !.twitter_name = enr.data[1],
                                              !.rank = 7,
                                              !.twitter_score = score]
       IN  enr' = NextShare([enr EXCEPT !.updated = Append(@, share),
                                        !.shares[enr.k] = share,
                                        !.data = <<>>])
    /\ UNCHANGED shares_table
    /\ enrichFrame

\* get_twitter_score raises: no field of the share is assigned, attempt += 1
ScoreRaises ==
    /\ enr.pc = "lookup" /\ enr.data # <<>>
    /\ enr' = [enr EXCEPT !.attempt = @ + 1, !.data = <<>>]
    /\ UNCHANGED shares_table
    /\ enrichFrame

\* get_twitter_score returns data without the key 'success': the share
\* object gets twitter_username, twitter_name and rank, then
\* twitter_data['success'] raises KeyError: attempt += 1
ScoreNoKey ==
    /\ enr.pc = "lookup" /\ enr.data # <<>>
    /\ enr' = [enr EXCEPT !.attempt = @ + 1, !.data = <<>>,
                          !.shares[enr.k].twitter_username = enr.data[1],
                          !.shares[enr.k].twitter_name = enr.data[1],
                          !.shares[enr.k].rank = 7]
    /\ UNCHANGED shares_table
    /\ enrichFrame

\* if not success: the default data
LookupGivesUp ==
    /\ enr.pc = "lookup"
    /\ enr.attempt = max_attempts
    /\ LET share == [enr.shares[enr.k] EXCEPT !.twitter_username = not_found,
                                              !.twitter_name = not_found,
                                              !.rank = 0,
                                              !.twitter_score = 0]
       IN  enr' = NextShare([enr EXCEPT !.updated = Append(@, share),
                                        !.shares[enr.k] = share])
    /\ UNCHANGED shares_table
    /\ enrichFrame

\* await update_shares(db, updated_shares): committed, or rolled back when
\* a query raises
EnrichWrite(ok) ==
    /\ enr.pc = "write"
    /\ shares_table' = IF ok THEN update_shares(shares_table, enr.updated)
                       ELSE shares_table
    /\ enr' = [enr EXCEPT !.pc = IF ok THEN "done" ELSE "raised",
                          !.calls = @ + 1, !.arg = enr.updated, !.rolled = ~ok]
    /\ enrichFrame

\* process_trades_to_shares for a new trade of a subject that has a Share:
\* update_shares(db, [Share(**share_data)])
AggregateWrite(n, ok) ==
    /\ enr.agg < MaxAggWrites
    /\ LET row == shares_table[n]
           trade == [subject |-> row.address,
                     timestamp |-> row.last_transaction + 2,
                     supply |-> row.supply + 1]
           share == ShareData(trade, ChainBalance(row.address, trade.timestamp),
                              get_all_share_addresses(shares_table))
       IN  /\ shares_table' = IF ok THEN update_shares(shares_table, << share >>)
                              ELSE shares_table
           /\ enr' = [enr EXCEPT !.agg = @ + 1, !.calls = @ + 1,
                                 !.arg = << share >>, !.rolled = ~ok]
    /\ enrichFrame

InitEnrich ==
    /\ chain_head = 0 /\ trades_table = <<>>
    /\ shares_table \in EnrichTables
    /\ batch_size = 1 /\ cycles = 0 /\ faults = 0 /\ cycle_pc = "sleep" /\ start_block = 0
    /\ last_block = 0 /\ ranges = <<>> /\ scanned = NoScan
    /\ InsIdle /\ SelIdle /\ RedIdle /\ AuxIdle

NextEnrich ==
    \/ EnrichRead
    \/ \E username \in {Handle, None} : LookupAnswers(username)
    \/ LookupFails
    \/ \E score \in {0, 5} : LookupFound(score)
    \/ ScoreRaises
    \/ ScoreNoKey
    \/ LookupGivesUp
    \/ \E ok \in BOOLEAN : EnrichWrite(ok)
    \/ \E n \in 1..Len(shares_table) : \E ok \in BOOLEAN : AggregateWrite(n, ok)

SpecEnrich == InitEnrich /\ [][NextEnrich]_vars

\* the steps of the pass itself: the coroutine runs on whenever the call it
\* awaits has ended, and every call it awaits ends (the HTTP clients time
\* out, update_shares returns or raises); the aggregator may never write
EnrichPass ==
    \/ EnrichRead
    \/ \E username \in {Handle, None} : LookupAnswers(username)
    \/ LookupFails
    \/ \E score \in {0, 5} : LookupFound(score)
    \/ ScoreRaises
    \/ ScoreNoKey
    \/ LookupGivesUp
    \/ \E ok \in BOOLEAN : EnrichWrite(ok)

SpecEnrichLive == SpecEnrich /\ WF_vars(EnrichPass)

-----------------------------------------------------------------------------
(* SpecNest: the three semaphores of one scan cycle.  nest.ranges are the  *)
(* handle_block_range tasks of the cycle: pc is "pending" (at async with   *)
(* semaphore), "running" or "done"; the block tasks of a task are counted  *)
(* by stage: p at async with concurrent_tasks, f in _filter_transactions   *)
(* (holding a permit of concurrent_tasks), w at async with self.semaphore  *)
(* of the scanner (still holding it), d in the gather of the decode tasks  *)
(* (holding both), e ended.  Every network and database call comes to an   *)
(* end, by returning or by raising.                                        *)

MaxNestHead == 12
MaxNestBatch == 7
MaxNestTasks == 6

\* concurrent_tasks = asyncio.Semaphore(5)
RangeSem == 5

\* the block tasks of a sub-range: range(start, end)
NestRange(r) ==
    [pc |-> "pending", blocks |-> Cardinality(BlocksOf(r.start, r.end)),
     p |-> Cardinality(BlocksOf(r.start, r.end)), f |-> 0, w |-> 0, d |-> 0, e |-> 0]

NestRanges(head, bs) ==
    [i \in 1..Len(MakeRanges(0, head, bs)) |-> NestRange(MakeRanges(0, head, bs)[i])]

NestTasks(rs) == LET RECURSIVE Sum(_)
                     Sum(i) == IF i = 0 THEN 0 ELSE rs[i].blocks + Sum(i - 1)
                 IN  Sum(Len(rs))

\* the permits in use
OuterHeld == Cardinality({i \in 1..Len(nest.ranges) : nest.ranges[i].pc = "running"})
RangeHeld(i) == nest.ranges[i].f + nest.ranges[i].w + nest.ranges[i].d
ScannerHeld == LET RECURSIVE Sum(_)
                   Sum(i) == IF i = 0 THEN 0 ELSE nest.ranges[i].d + Sum(i - 1)
               IN  Sum(Len(nest.ranges))

nestFrame ==
    UNCHANGED <<scanVars, insVars, selVars, redVars, priceVars, reads, gt, fetch,
                blk_in, blk_out, enr>>

\* bounded_handle_block_range: async with semaphore
NestAcquire(i) ==
    /\ nest.ranges[i].pc = "pending"
    /\ \A j \in 1..(i - 1) : nest.ranges[j].pc # "pending"
    /\ OuterHeld < OuterLimit
    /\ nest' = [nest EXCEPT !.ranges[i].pc = "running"]
    /\ nestFrame

\* fetch_and_handle_trades: async with concurrent_tasks, then get_trades
\* awaits _filter_transactions
BlockAcquire(i) ==
    /\ nest.ranges[i].pc = "running"
    /\ nest.ranges[i].p > 0
    /\ RangeHeld(i) < RangeSem
    /\ nest' = [nest EXCEPT !.ranges[i].p = @ - 1, !.ranges[i].f = @ + 1]
    /\ nestFrame

\* _filter_transactions returns: the task is at async with self.semaphore
FilterReturns(i) ==
    /\ nest.ranges[i].f > 0
    /\ nest' = [nest EXCEPT !.ranges[i].f = @ - 1, !.ranges[i].w = @ + 1]
    /\ nestFrame

\* a block task that raised and kept its permit of concurrent_tasks
FilterRaisesHolding(i) ==
    /\ nest.ranges[i].f > 0
    /\ nest.ranges[i].e < nest.ranges[i].blocks
    /\ nest' = [nest EXCEPT !.ranges[i].e = @ + 1]
    /\ nestFrame

\* _filter_transactions raises out of get_trades and out of async with
\* concurrent_tasks: the permit is released, the gather keeps the exception
FilterRaises(i) ==
    /\ nest.ranges[i].f > 0
    /\ nest' = [nest EXCEPT !.ranges[i].f = @ - 1, !.ranges[i].e = @ + 1]
    /\ nestFrame

\* async with self.semaphore: the decode tasks are gathered
ScannerAcquire(i) ==
    /\ nest.ranges[i].w > 0
    /\ ScannerHeld < ScannerSem
    /\ nest' = [nest EXCEPT !.ranges[i].w = @ - 1, !.ranges[i].d = @ + 1]
    /\ nestFrame

\* the gather of the decode tasks returns, with the trades and the
\* exceptions of the tasks that raised: both permits are released
DecodeGatherReturns(i) ==
    /\ nest.ranges[i].d > 0
    /\ nest' = [nest EXCEPT !.ranges[i].d = @ - 1, !.ranges[i].e = @ + 1]
    /\ nestFrame

\* the gather of the block tasks has returned and the writes have ended (a
\* raise of theirs is caught): handle_block_range returns
RangeReturns(i) ==
    /\ nest.ranges[i].pc = "running"
    /\ nest.ranges[i].e = nest.ranges[i].blocks
    /\ nest' = [nest EXCEPT !.ranges[i].pc = "done"]
    /\ nestFrame

\* await asyncio.gather(*batch_tasks) returns
NestCycleEnd ==
    /\ ~nest.ended
    /\ \A i \in 1..Len(nest.ranges) : nest.ranges[i].pc = "done"
    /\ nest' = [nest EXCEPT !.ended = TRUE]
    /\ nestFrame

InitNest ==
    /\ ScanIdle /\ InsIdle /\ SelIdle /\ RedIdle
    /\ price_in = [supply |-> 1, amount |-> 1] /\ price_out = <<>>
    /\ reads = <<>> /\ gt = <<>>
    /\ fetch = [good |-> 0, calls |-> 0, waiting |-> 0, returned |-> 0, raised |-> 0]
    /\ blk_in = [block |-> 0, timestamp |-> 0, txs |-> <<>>, failed |-> {}]
    /\ blk_out = <<>>
    /\ EnrIdle
    /\ \E head \in 1..MaxNestHead : \E bs \in 1..MaxNestBatch :
          /\ NestTasks(NestRanges(head, bs)) <= MaxNestTasks
          /\ nest = [ended |-> FALSE, ranges |-> NestRanges(head, bs)]

NextNest ==
    \/ \E i \in 1..Len(nest.ranges) : NestAcquire(i)
    \/ \E i \in 1..Len(nest.ranges) : BlockAcquire(i)
    \/ \E i \in 1..Len(nest.ranges) : FilterReturns(i)
    \/ \E i \in 1..Len(nest.ranges) : FilterRaises(i)
    \/ \E i \in 1..Len(nest.ranges) : ScannerAcquire(i)
    \/ \E i \in 1..Len(nest.ranges) : DecodeGatherReturns(i)
    \/ \E i \in 1..Len(nest.ranges) : RangeReturns(i)
    \/ NestCycleEnd

\* the event loop runs every task that can run, and every call ends
SpecNest == InitNest /\ [][NextNest]_vars /\ WF_vars(NextNest)

-----------------------------------------------------------------------------
(* SpecPrice: the price functions of Contract on every supply and amount   *)
(* with supply >= amount >= 1, MaxSupply >= amount, and the supply at most  *)
(* MaxSupply or from BigSupply to BigSupply + MaxSupply.                    *)

MaxSupply == 14

\* a supply at which a price after fee is not the exact sum of its terms
BigSupply == 268

PriceInputs ==
    {in \in [supply : (1..MaxSupply) \cup (BigSupply..(BigSupply + MaxSupply)),
             amount : 1..MaxSupply] : in.amount <= in.supply}

\* the seller of amount shares at supply S and the buyer of amount shares at
\* supply S - amount ask for their prices
PriceCall ==
    /\ price_out = <<>>
    /\ price_out' =
          << [buy  |-> calc_buy_price_after_fee(price_in.supply - price_in.amount,
                                                price_in.amount),
              sell |-> calc_sell_price_after_fee(price_in.supply, price_in.amount)] >>
    /\ UNCHANGED <<price_in, reads, gt, moreVars>>
    /\ UNCHANGED <<scanVars, insVars, selVars, redVars>>

InitPrice ==
    /\ ScanIdle /\ InsIdle /\ SelIdle /\ RedIdle
    /\ price_in \in PriceInputs
    /\ price_out = <<>>
    /\ reads = <<>>
    /\ gt = <<>>
    /\ MoreIdle

NextPrice == PriceCall

SpecPrice == InitPrice /\ [][NextPrice]_vars

-----------------------------------------------------------------------------
(* Claims checked under Spec *)

AllDone == cycle_pc = "gather" /\ \A i \in 1..Len(ranges) : ranges[i].pc = "done"

\* C1 (as claimed): when a cycle has read checkpoint c = start_block, every
\* trade event emitted in a block <= c is stored.
C1_CheckpointComplete ==
    cycle_pc = "read_head" =>
        \A b \in 1..start_block : EmittedHashes(b) \subseteq StoredHashes(trades_table)

\* C2 (as claimed): when the sub-ranges of a cycle have all ended, every block
\* of (start_block, last_block] was passed to get_trades exactly once.
C2_EveryBlockOnce ==
    AllDone => \A b \in (start_block + 1)..last_block : scanned[b] = 1

\* C4: the checkpoint never decreases: neither the value a cycle reads
\* (start_block) nor MAX(block_number) of the stored trades, at any step,
\* under any order of the sub-range commits and any failure.
C4_CheckpointMonotone ==
    [][/\ start_block' >= start_block
       /\ get_last_block(trades_table') >= get_last_block(trades_table)]_vars

\* C4 witness: a cycle reads a checkpoint above 0 from a table whose rows
\* were committed out of block order.
C4_Witness ==
    /\ cycle_pc = "read_head"
    /\ start_block > 0
    /\ \E i, j \in 1..Len(trades_table) :
          i < j /\ trades_table[i].block_number > trades_table[j].block_number

Addresses(shares) == {shares[k].address : k \in 1..Len(shares)}

\* the classification a reconcile call holds between its reads and its writes
Classified(r) == r.agg \in {"classified", "updated"}

C9_Partition(r) ==
    LET reps == most_recent_trades(flat_trades(r))
    IN  /\ Len(r.to_update) + Len(r.to_create) = Len(reps)
        /\ Addresses(r.to_update) \cap Addresses(r.to_create) = {}
        /\ \A k \in 1..Len(reps) :
              IF reps[k].subject \in r.existing
              THEN \E u \in 1..Len(r.to_update) :
                      /\ r.to_update[u].address = reps[k].subject
                      /\ r.to_update[u].registered = None
              ELSE \E c \in 1..Len(r.to_create) :
                      /\ r.to_create[c].address = reps[k].subject
                      /\ r.to_create[c].registered = reps[k].timestamp

\* C9: in a reconcile call every representative trade is in exactly one of
\* shares_to_update and shares_to_create: in shares_to_create, with
\* registered = its timestamp, when its subject is not in the addresses
\* fetched at the start of the call, else in shares_to_update; no step
\* changes the registered of a stored row, and a row is stored with the
\* registered of the share_data that created it.
C9_CreateUpdatePartition ==
    [][/\ \A i \in 1..Len(ranges') : Classified(ranges'[i]) => C9_Partition(ranges'[i])
       /\ Len(shares_table') >= Len(shares_table)
       /\ \A n \in 1..Len(shares_table) :
             /\ shares_table'[n].address = shares_table[n].address
             /\ shares_table'[n].registered = shares_table[n].registered
       /\ \A n \in (Len(shares_table) + 1)..Len(shares_table') :
             /\ shares_table'[n].registered # None
             /\ shares_table'[n].registered = shares_table'[n].last_transaction]_vars

\* C9 witness: an update has been applied to a row created by an earlier
\* call: its last_transaction is the update's, its registered the older one.
C9_Witness ==
    \E i \in 1..Len(ranges) : \E n \in 1..Len(shares_table) :
        /\ ranges[i].agg = "done"
        /\ \E u \in 1..Len(ranges[i].to_update) :
              /\ ranges[i].to_update[u].address = shares_table[n].address
              /\ shares_table[n].last_transaction = ranges[i].to_update[u].last_transaction
              /\ shares_table[n].registered # None
              /\ shares_table[n].registered < shares_table[n].last_transaction

UniqueAddresses(table) ==
    \A m, n \in 1..Len(table) : m # n => table[m].address # table[n].address

\* C10: the shares table never holds two rows of one address, and no step
\* removes the row of an address, under any interleaving of the reconcile
\* calls of concurrent sub-ranges.
C10_OneSharePerAddress ==
    [][/\ UniqueAddresses(shares_table')
       /\ get_all_share_addresses(shares_table)
             \subseteq get_all_share_addresses(shares_table')]_vars

\* C10 witness: a reconcile call classified a subject as create, and its
\* insert_shares ran after another call had stored the row of that address.
C10_Witness ==
    \E i \in 1..Len(ranges) : \E n \in 1..Len(shares_table) :
        /\ ranges[i].agg = "done"
        /\ \E c \in 1..Len(ranges[i].to_create) :
              /\ ranges[i].to_create[c].address = shares_table[n].address
              /\ ranges[i].to_create[c].registered # shares_table[n].registered

\* C16: a cycle whose chain-head read returns a block number not above the
\* checkpoint it read ends there: it creates no sub-range, fetches no block
\* and leaves both tables as they were; sub-ranges exist only in cycles with
\* start_block < last_block.
C16_NoOpCycle ==
    [][/\ (cycle_pc = "read_head" /\ cycle_pc' \notin {"read_head", "failed"}
            /\ start_block >= last_block') =>
              /\ cycle_pc' = "sleep"
              /\ ranges' = <<>>
              /\ scanned' = NoScan
              /\ trades_table' = trades_table
              /\ shares_table' = shares_table
       /\ cycle_pc' = "gather" => start_block' < last_block']_vars

\* C16 witness: a cycle that read a checkpoint above 0 and a chain head not
\* above it has returned, with nothing scanned.
C16_Witness ==
    /\ cycle_pc = "sleep"
    /\ start_block > 0
    /\ last_block <= start_block
    /\ ranges = <<>>
    /\ scanned = NoScan

\* C17: the sub-ranges of a cycle, as inclusive pairs (start, end): the first
\* starts at start_block + 1, each next one starts right after the one
\* before, all but the last hold batch_size blocks and the last between 1
\* and batch_size, the last ends at last_block; so they are disjoint and
\* their union is (start_block, last_block].
C17_SubRangePartition ==
    cycle_pc = "gather" =>
        /\ Len(ranges) >= 1
        /\ ranges[1].start = start_block + 1
        /\ ranges[Len(ranges)].end = last_block
        /\ \A k \in 1..Len(ranges) :
              /\ ranges[k].start <= ranges[k].end
              /\ ranges[k].end - ranges[k].start + 1 <= batch_size
              /\ k < Len(ranges) =>
                    /\ ranges[k].end - ranges[k].start + 1 = batch_size
                    /\ ranges[k + 1].start = ranges[k].end + 1
        /\ UNION {ranges[k].start .. ranges[k].end : k \in 1..Len(ranges)}
              = (start_block + 1)..last_block
        /\ \A k, m \in 1..Len(ranges) :
              k # m => (ranges[k].start .. ranges[k].end)
                          \cap (ranges[m].start .. ranges[m].end) = {}

\* C17 witness: a cycle from a checkpoint above 0 with two sub-ranges or
\* more, the last one shorter than batch_size.
C17_Witness ==
    /\ cycle_pc = "gather"
    /\ start_block > 0
    /\ Len(ranges) >= 2
    /\ ranges[Len(ranges)].end - ranges[Len(ranges)].start + 1 < batch_size

\* C18: after a cycle has raised (in get_last_block or in
\* get_last_block_number) the loop starts another cycle, and a cycle takes
\* as start_block the checkpoint stored when it reads it.
C18_LoopResumes ==
    /\ [](cycle_pc = "failed" => <>(cycle_pc = "restart"))
    /\ [][(cycle_pc \in {"start", "restart"} /\ cycle_pc' = "read_head") =>
              start_block' = get_last_block(trades_table)]_vars

\* C18 witness: the loop has started a cycle after one that raised, with
\* trades stored, and the checkpoint it will read is above the one the
\* failed cycle had read.
C18_Witness ==
    /\ cycle_pc = "restart"
    /\ get_last_block(trades_table) > start_block
    /\ start_block > 0

\* the writes of a sub-range that has ended: the trades are stored unless
\* insert_trades itself raised, and every subject has its Share unless
\* process_trades_to_shares itself raised
Isolated(r, trades, shares) ==
    (r.pc = "done" /\ flat_trades(r) # <<>>) =>
        /\ "ins" \notin r.exc =>
              StoredHashes(flat_trades(r)) \subseteq StoredHashes(trades)
        /\ "agg" \notin r.exc =>
              {flat_trades(r)[k].subject : k \in 1..Len(flat_trades(r))}
                  \subseteq get_all_share_addresses(shares)

\* C11: within handle_block_range the two writes fail independently: the
\* trades are stored although process_trades_to_shares raised, the shares
\* are reconciled although insert_trades raised; the step at which one of
\* them raises leaves the other write, the sibling sub-ranges and the
\* cycle as they were.
C11_FailureIsolation ==
    [][/\ \A i \in 1..Len(ranges') :
             Isolated(ranges'[i], trades_table', shares_table')
       /\ \A i \in 1..Len(ranges) :
             (Len(ranges') = Len(ranges) /\ ranges'[i].exc # ranges[i].exc) =>
                 /\ cycle_pc' = "gather"
                 /\ \A j \in 1..Len(ranges) : j # i => ranges'[j] = ranges[j]
                 /\ ("agg" \in ranges'[i].exc \ ranges[i].exc) =>
                        ranges'[i].ins = ranges[i].ins
                 /\ ("ins" \in ranges'[i].exc \ ranges[i].exc) =>
                        ranges'[i].agg = ranges[i].agg]_vars

\* C11 witness: in one cycle, a sub-range whose aggregation raised has its
\* trades stored, and a sub-range whose insert raised has its shares stored.
C11_Witness ==
    \E i, j \in 1..Len(ranges) :
        /\ ranges[i].pc = "done" /\ ranges[i].exc = {"agg"}
        /\ flat_trades(ranges[i]) # <<>>
        /\ StoredHashes(flat_trades(ranges[i])) \subseteq StoredHashes(trades_table)
        /\ ranges[j].pc = "done" /\ ranges[j].exc = {"ins"}
        /\ flat_trades(ranges[j]) # <<>>
        /\ {flat_trades(ranges[j])[k].subject : k \in 1..Len(flat_trades(ranges[j]))}
              \subseteq get_all_share_addresses(shares_table)
        /\ StoredHashes(flat_trades(ranges[j])) \cap StoredHashes(trades_table) = {}

-----------------------------------------------------------------------------
(* Claims checked under SpecInsert *)

RowsOfHash(table, h) == {n \in 1..Len(table) : table[n].transaction_hash = h}

\* C3 (as claimed): after insert_trades(batch), whether or not a trade of the
\* batch was given twice or stored before, the call has not raised and every
\* transaction hash of the batch has exactly one stored row.
C3_InsertIdempotent ==
    ins_batch # <<>> =>
        /\ ~ins_raised
        /\ \A k \in 1..Len(ins_batch) :
              Cardinality(RowsOfHash(trades_table, ins_batch[k].transaction_hash)) = 1

-----------------------------------------------------------------------------
(* Claims checked under SpecSelector *)

Distinct(q) == \A m, n \in 1..Len(q) : m # n => q[m] # q[n]

RunLength == LET RECURSIVE Sum(_)
                 Sum(r) == IF r = 0 THEN 0 ELSE worst_run[r] + Sum(r - 1)
             IN  Sum(NumRpcs)

\* C5 (as claimed): the calls that follow a state of equal health and equal
\* request counts, up to NumRpcs of them with no failure recorded in
\* between, return distinct endpoints.
C5_FairAsClaimed == Distinct(fair_run)

\* C5 (amended): the same, for the runs that start with no recent failure on
\* any endpoint, or whose first call reads a later clock value than the
\* selector call before it.
C5_FairCleanOrLater == (fair_clean \/ fair_later) => Distinct(fair_run)

\* C5 witness: a full cycle of NumRpcs calls over endpoints that had all been
\* used before, begun with recent failures at equal ratios.
C5_Witness ==
    /\ Len(fair_run) = NumRpcs
    /\ fair_later /\ ~fair_clean
    /\ \A r \in 1..NumRpcs : requests_counter[r] >= 2

\* C6 (as claimed): over a run of selector calls at each of which one
\* endpoint has recent failures on half or more of its requests and no peer
\* has any, that endpoint is picked strictly fewer times than each peer.
C6_Avoidance ==
    RunLength >= 2 * NumRpcs =>
        \A p \in 1..NumRpcs : p # worst => worst_run[worst] < worst_run[p]

-----------------------------------------------------------------------------
(* Claims checked under SpecReducer *)

OfSubject(batch, subject) == {k \in 1..Len(batch) : batch[k].subject = subject}

\* the trades of the subject that carry its greatest timestamp in the batch
Latest(batch, subject) ==
    {k \in OfSubject(batch, subject) :
        \A m \in OfSubject(batch, subject) : batch[m].timestamp <= batch[k].timestamp}

\* C7: the reducer returns exactly one trade of the batch per distinct subject
\* of the batch, and its timestamp is the greatest timestamp among the
\* batch's trades of that subject, whatever the order of the batch.
C7_ReducerMax ==
    red_done =>
        /\ {red_out[r].subject : r \in 1..Len(red_out)}
              = {red_trades[k].subject : k \in 1..Len(red_trades)}
        /\ \A r, q \in 1..Len(red_out) :
              r # q => red_out[r].subject # red_out[q].subject
        /\ \A r \in 1..Len(red_out) :
              \E k \in Latest(red_trades, red_out[r].subject) :
                  red_out[r].timestamp = red_trades[k].timestamp

\* C7 witness: one subject at timestamps [10, 30, 20] gives the trade at 30.
C7_Witness ==
    /\ red_done
    /\ Len(red_trades) = 3
    /\ \A k \in 1..3 : red_trades[k].subject = "0xa1"
    /\ red_trades[1].timestamp = 10
    /\ red_trades[2].timestamp = 30
    /\ red_trades[3].timestamp = 20
    /\ red_out = <<red_trades[2]>>

\* C8 (as claimed): when several trades of a subject share its greatest
\* timestamp, the representative is the last of them in batch order.
C8_LastSeenWins ==
    red_done =>
        \A r \in 1..Len(red_out) :
            \A k \in Latest(red_trades, red_out[r].subject) :
                k <= red_out[r].transaction_hash

-----------------------------------------------------------------------------
(* Claims checked under SpecPrice *)

\* a < b for Python ints a and b
RECURSIVE Less(_, _)
Less(a, b) ==
    IF Len(a) # Len(b) THEN Len(a) < Len(b)
    ELSE IF a = <<>> THEN FALSE
    ELSE IF a[Len(a)] # b[Len(b)] THEN a[Len(a)] < b[Len(b)]
    ELSE Less(SubSeq(a, 1, Len(a) - 1), SubSeq(b, 1, Len(b) - 1))

\* |a - b| for Python ints a and b
Gap(a, b) == IF Less(a, b) THEN Trim(SubLimbs(b, a, 0)) ELSE Trim(SubLimbs(a, b, 0))

\* a and b differ by at most 2^-(Precision - 5) of p: by float rounding only
Near(a, b, p) == ~Less(p, ShiftLeft(Gap(a, b), Precision - 5))

\* the terms of the prices of price_in, as exact numbers in units of 2^e wei,
\* e the lowest exponent of the floats among them
PriceTerms ==
    LET p == calc_price(price_in.supply - price_in.amount, price_in.amount)
        fee == float_mul(float_of_int(p), Point05)
        buy == price_out[1].buy
        sell == price_out[1].sell
        low == Lower(Lower(buy, sell), fee)
        e == IF low.e < 0 THEN low.e ELSE 0
    IN  [p |-> ShiftLeft(p, 0 - e), fee |-> Aligned(fee, e),
         buy |-> Aligned(buy, e), sell |-> Aligned(sell, e)]

\* C19: for supply S >= amount >= 1, with p = calc_price(S - amount, amount)
\* the price before fee and fee = p * 0.05, calc_buy_price_after_fee(S -
\* amount, amount) is p + fee + fee and calc_sell_price_after_fee(S, amount)
\* is p - fee - fee, in the arithmetic of floats: the two functions use the
\* same price before fee and the same fee, the fee is 5% of p and the two
\* prices after fee lie at the same distance from p, up to the rounding of
\* floats.
C19_PriceSymmetry ==
    price_out # <<>> =>
        LET p == float_of_int(calc_price(price_in.supply - price_in.amount,
                                         price_in.amount))
            fee == float_mul(p, Point05)
            t == PriceTerms
        IN  /\ price_out[1].buy = float_add(float_add(p, fee), fee)
            /\ price_out[1].sell = float_sub(float_sub(p, fee), fee)
            /\ Near(MulLimb(t.fee, 20, 0), t.p, t.p)
            /\ Near(AddLimbs(t.buy, t.sell, 0), AddLimbs(t.p, t.p, 0), t.p)

\* C19 witness: 1 share sold at supply 268 and 1 share bought at supply 267,
\* p = 4455562500000000000 wei: the prices after fee are rounded, so that
\* they do not lie at exactly the same distance from p.
C19_Witness ==
    /\ price_in = [supply |-> 268, amount |-> 1]
    /\ price_out # <<>>
    /\ AddLimbs(PriceTerms.buy, PriceTerms.sell, 0) # AddLimbs(PriceTerms.p, PriceTerms.p, 0)

-----------------------------------------------------------------------------
(* Claims checked under SpecReads *)

\* C12 (as claimed): no read, the chain-head read and the balance read
\* included, raises to its caller after a single failed attempt.
C12_ReadsRetried ==
    \A o \in 1..Len(reads) : reads[o].state = "raised" => reads[o].tries > 1

\* C13 (as claimed): when the endpoint serves the receipt and validation of
\* the decoded log fails, the decode ends there for its caller, without
\* another attempt, and no failure is logged against any endpoint.
C13_ValidationNotRetried ==
    [][\A o \in 1..Len(reads) :
          (reads[o].state = "await" /\ reads'[o].last = "invalid"
              /\ reads'[o].state # "await") =>
                /\ reads'[o].state = "raised"
                /\ backoff_times' = backoff_times]_vars

\* C20: the attempt of a read that raises (the endpoint failed, or the
\* decode of the receipt raised) appends one timestamp, the clock's, to the
\* failure log of the endpoint selected for that attempt and changes no
\* other log; an attempt that returns, and every other step, leaves the
\* logs as they were.
C20_FailureLogged ==
    [][/\ \A o \in 1..Len(reads) :
             (reads[o].state = "await" /\ reads'[o].state # "await") =>
                 IF reads'[o].last = "ok"
                 THEN backoff_times' = backoff_times
                 ELSE /\ backoff_times'[reads[o].rpc]
                            = Append(backoff_times[reads[o].rpc], current_time)
                      /\ \A r \in 1..NumRpcs :
                            r # reads[o].rpc => backoff_times'[r] = backoff_times[r]
       /\ (\A o \in 1..Len(reads) :
                reads[o].state = "await" => reads'[o].state = "await") =>
             backoff_times' = backoff_times]_vars

\* C20 witness: a read failed on one endpoint, was retried on another and
\* failed there too, and its third attempt returned: each of the first two
\* endpoints has one failure logged, the third none.
C20_Witness ==
    \E o \in 1..Len(reads) :
        /\ reads[o].tries = 3 /\ reads[o].state = "returned"
        /\ Len(backoff_times[reads[o].rpc]) = 0
        /\ TotalFailures = 2
        /\ \A r \in 1..NumRpcs : Len(backoff_times[r]) <= 1

-----------------------------------------------------------------------------
(* Claims checked under SpecDecode *)

\* C14 (as claimed): at most ScannerSem _decode_trade_events calls are in
\* flight at once, whatever the number of relevant transactions of a block.
C14_DecodeBound == DecodesInFlight <= ScannerSem

-----------------------------------------------------------------------------
(* Claims checked under SpecOuter *)

\* C15: at most OuterLimit handle_block_range invocations hold the semaphore
\* at any time, however many sub-ranges the cycle has, and every sub-range
\* of the cycle ends.
C15_OuterBound ==
    /\ [](Cardinality(Holding) <= OuterLimit)
    /\ \A i \in 1..MaxOuterBlocks :
          (i <= Len(ranges)) ~> (i <= Len(ranges) /\ ranges[i].pc = "done")

\* C15 witness: OuterLimit sub-ranges run, one has ended and one waits for
\* a permit.
C15_Witness ==
    /\ Cardinality(Holding) = OuterLimit
    /\ \E i \in 1..Len(ranges) : ranges[i].pc = "pending"
    /\ \E i \in 1..Len(ranges) :
          ranges[i].pc = "done" /\ BlocksOf(ranges[i].start, ranges[i].end) # {}

-----------------------------------------------------------------------------
(* Claims checked under SpecSelector, continued *)

\* C21: a selector call returns an endpoint of the configured list, adds one
\* to the request counter of that endpoint and of no other, sets its
\* last-selected time to the clock value of the call, and leaves the other
\* endpoints' last-selected times and every failure log as they were; no
\* other step touches the counters or the last-selected times, and the list
\* of endpoints never shrinks.  in_flight records the endpoint a call
\* returned.
C21_SelectorFrame ==
    [][ /\ \A rpc \in 1..NumRpcs :
              in_flight'[rpc] > in_flight[rpc] =>
                  /\ \E k \in 1..Len(rpcs) : rpcs[k] = rpc
                  /\ requests_counter' = [requests_counter EXCEPT ![rpc] = @ + 1]
                  /\ last_selected' = [last_selected EXCEPT ![rpc] = current_time]
                  /\ backoff_times' = backoff_times
        /\ (\A rpc \in 1..NumRpcs : in_flight'[rpc] <= in_flight[rpc]) =>
              requests_counter' = requests_counter /\ last_selected' = last_selected
        /\ TotalInFlight' <= TotalInFlight + 1
        /\ DOMAIN requests_counter' = 1..NumRpcs
        /\ DOMAIN last_selected' = 1..NumRpcs ]_vars

\* every endpoint has a recent failure and the selector has still returned
\* one of them to a call made after the last of those failures
C21_Witness ==
    /\ \A rpc \in 1..NumRpcs : recent_backoffs(rpc, backoff_times, current_time) > 0
    /\ TotalInFlight = 1
    /\ TotalFailures = NumRpcs

-----------------------------------------------------------------------------
(* Claims checked under SpecFetch *)

\* C22: while one endpoint always answers, every _filter_transactions call
\* returns in the end (again and again, all the calls made so far have
\* returned), however the retries of the concurrent callers interleave: no
\* call raises, and no caller ever waits for a selection that is not made.  A call that failed is given another endpoint until it
\* reaches one that answers.
C22_FetchReturns ==
    /\ []<>(fetch.returned = fetch.calls)
    /\ [](fetch.raised = 0)
    /\ [](fetch.waiting > 0 => TotalCalls < FetchLimit)

\* two callers have returned although each endpoint but one has failed a
\* request, one of them twice
C22_Witness ==
    /\ fetch.returned = 2
    /\ \A rpc \in 1..NumRpcs : rpc # fetch.good => Len(backoff_times[rpc]) >= 1
    /\ TotalFailures > NumRpcs - 1

\* C29: in every state, whatever the interleaving of the concurrent reads,
\* an endpoint has at most as many recorded failures as requests counted
\* against it (the requests still awaited are counted and have not failed),
\* so that its recent failures never exceed its request count.
C29_FailuresWithinRequests ==
    \A rpc \in 1..NumRpcs :
        /\ Len(backoff_times[rpc]) + in_flight[rpc] <= requests_counter[rpc]
        /\ recent_backoffs(rpc, backoff_times, current_time) <= requests_counter[rpc]

\* every request counted against an endpoint has failed, twice or more, while
\* another caller's request is in flight on a second endpoint
C29_Witness ==
    \E rpc, other \in 1..NumRpcs :
        /\ rpc # other
        /\ requests_counter[rpc] >= 2
        /\ Len(backoff_times[rpc]) = requests_counter[rpc]
        /\ in_flight[other] > 0

-----------------------------------------------------------------------------
(* Claims checked under SpecBlock *)

TradesOfTx(trades, k) == SelectSeq(trades, LAMBDA t : t.transaction_hash = blk_in.txs[k].hash)

\* C23: get_trades leaves out the transactions whose decode ended in
\* failure and returns the trades of every other transaction of the block,
\* all of them and in order: a failure neither aborts nor empties the result.
C23_FailedDecodeExcluded ==
    blk_out # <<>> =>
        \A k \in 1..Len(blk_in.txs) :
            TradesOfTx(blk_out[1], k) =
                IF k \in blk_in.failed THEN <<>>
                ELSE decode_trade_events(blk_in.txs[k], blk_in.timestamp)

\* one decode failed, on a transaction that emitted a Trade, and the trade
\* of another transaction of the block has been returned
C23_Witness ==
    /\ blk_out # <<>> /\ blk_out[1] # <<>>
    /\ \E k \in blk_in.failed :
          /\ blk_in.txs[k].status = 1
          /\ \E j \in 1..Len(blk_in.txs[k].logs) :
                blk_in.txs[k].logs[j].topic = EventSignature

\* C24: every trade get_trades returns comes from a log whose first topic is
\* the event signature, in a receipt with success status, and carries the
\* timestamp of the block; a receipt without success status yields the
\* empty list.
C24_DecoderFilters ==
    /\ blk_out # <<>> =>
          \A n \in 1..Len(blk_out[1]) :
              \E k \in 1..Len(blk_in.txs) :
                  \E j \in 1..Len(blk_in.txs[k].logs) :
                      /\ blk_in.txs[k].status = 1
                      /\ blk_in.txs[k].logs[j].topic = EventSignature
                      /\ blk_out[1][n].transaction_hash = blk_in.txs[k].hash
                      /\ blk_out[1][n].supply = blk_in.txs[k].logs[j].supply
                      /\ blk_out[1][n].subject = blk_in.txs[k].logs[j].subject
                      /\ blk_out[1][n].timestamp = BlockTimestamp(blk_in.block)
    /\ \A k \in 1..Len(blk_in.txs) :
          blk_in.txs[k].status # 1 =>
              decode_trade_events(blk_in.txs[k], blk_in.timestamp) = <<>>

\* the block holds a reverted transaction that logged a Trade and a
\* successful one that logged a Trade and another event; get_trades returned
\* the one trade
C24_Witness ==
    /\ blk_out # <<>> /\ Len(blk_out[1]) = 1
    /\ blk_in.failed = {}
    /\ \E k \in 1..Len(blk_in.txs) :
          /\ blk_in.txs[k].status = 0
          /\ \E j \in 1..Len(blk_in.txs[k].logs) :
                blk_in.txs[k].logs[j].topic = EventSignature
    /\ \E k \in 1..Len(blk_in.txs) :
          /\ blk_in.txs[k].status = 1
          /\ \E i, j \in 1..Len(blk_in.txs[k].logs) :
                /\ blk_in.txs[k].logs[i].topic = EventSignature
                /\ blk_in.txs[k].logs[j].topic # EventSignature

\* C25: no two trades that get_trades returns for a block have the same
\* transaction hash, also when a receipt holds several logs with the event
\* signature.
C25_HashUniquePerTrade ==
    blk_out # <<>> =>
        \A m, n \in 1..Len(blk_out[1]) :
            m # n => blk_out[1][m].transaction_hash # blk_out[1][n].transaction_hash

-----------------------------------------------------------------------------
(* Claims checked under SpecEnrich *)

\* the value the last Share of shares with this address gives to field f,
\* or old when no Share of shares sets it
RECURSIVE Written(_, _, _, _)
Written(shares, address, f, old) ==
    IF shares = <<>> THEN old
    ELSE Written(Tail(shares), address, f,
                 IF shares[1].address = address /\ f # "address" /\ ~IsNone(shares[1], f)
                 THEN shares[1][f] ELSE old)

\* C26: a call of update_shares changes, in the row of each Share's address,
\* the columns whose field in the Share is not None, and nothing else: the
\* other columns and the other rows keep their values and no row is added
\* or removed; when the call raises, its transaction is rolled back and no
\* row has changed.
C26_UpdateFrame ==
    [][ enr'.calls # enr.calls =>
          /\ enr'.rolled => shares_table' = shares_table
          /\ ~enr'.rolled =>
                /\ Len(shares_table') = Len(shares_table)
                /\ \A n \in 1..Len(shares_table) : \A f \in ShareFields :
                      shares_table'[n][f] =
                          Written(enr'.arg, shares_table[n].address, f,
                                  shares_table[n][f]) ]_vars

\* the aggregator has updated a Share whose twitter fields the enrichment
\* had set before: the None fields of the update left them in place, and
\* the other Share is untouched
C26_Witness ==
    /\ enr.calls = 2 /\ ~enr.rolled /\ enr.pc = "done"
    /\ Len(enr.arg) = 1 /\ enr.arg[1].twitter_username = None
    /\ Len(shares_table) = 2
    /\ \E n \in 1..Len(shares_table) :
          /\ shares_table[n].address = enr.arg[1].address
          /\ shares_table[n].twitter_username = Handle
          /\ shares_table[n].last_transaction = enr.arg[1].last_transaction

\* C27: the write of the enrichment pass changes no column other than
\* twitter_username, twitter_name, twitter_score and rank, so that what the
\* aggregator committed between the pass's read and its write stays.
C27_EnrichmentKeepsAggregates ==
    [][ (enr.pc = "write" /\ enr'.pc # "write") =>
          \A n \in 1..Len(shares_table) : \A f \in ShareFields \ TwitterFields :
              shares_table'[n][f] = shares_table[n][f] ]_vars

-----------------------------------------------------------------------------
(* Claims checked under Spec, continued *)

\* the trades the sub-ranges of the cycle have fetched for the subject
CycleTrades(subject) ==
    {trade \in UNION {Range(flat_trades(ranges[i])) : i \in 1..Len(ranges)} :
        trade.subject = subject}

\* C28: when the sub-ranges of a cycle have all ended and none of their
\* writes raised, the Share of every subject traded in the cycle carries the
\* timestamp and the supply of a trade of the subject than which the cycle
\* has fetched no later one, whatever the order in which the sub-ranges
\* reconciled and whether they classified the subject as update or as
\* create.
C28_LatestTradeWins ==
    (AllDone /\ \A i \in 1..Len(ranges) : ranges[i].exc = {}) =>
        \A n \in 1..Len(shares_table) :
            CycleTrades(shares_table[n].address) # {} =>
                \E trade \in CycleTrades(shares_table[n].address) :
                    /\ shares_table[n].last_transaction = trade.timestamp
                    /\ shares_table[n].supply = trade.supply
                    /\ \A other \in CycleTrades(shares_table[n].address) :
                          other.timestamp <= trade.timestamp

-----------------------------------------------------------------------------
(* Claims checked under SpecNest *)

NoPermitHeld ==
    /\ OuterHeld = 0 /\ ScannerHeld = 0
    /\ \A i \in 1..Len(nest.ranges) : RangeHeld(i) = 0

\* C30: the three nested semaphores never deadlock: every scan cycle comes
\* to its end, and once it has ended no permit of the outer semaphore, of a
\* sub-range's semaphore or of the scanner's semaphore is held, also when
\* calls made inside a held semaphore raised; no semaphore ever gives out
\* more permits than it has.
C30_NoDeadlock ==
    /\ <>(nest.ended)
    /\ [](nest.ended => NoPermitHeld)
    /\ [](/\ OuterHeld <= OuterLimit /\ ScannerHeld <= ScannerSem
          /\ \A i \in 1..Len(nest.ranges) : RangeHeld(i) <= RangeSem)

\* every permit of the scanner's semaphore is taken and a block task waits
\* for one while it holds a permit of its sub-range's semaphore, inside the
\* outer semaphore
C30_Witness ==
    /\ ScannerHeld = ScannerSem
    /\ \E i \in 1..Len(nest.ranges) :
          nest.ranges[i].w > 0 /\ nest.ranges[i].pc = "running"

-----------------------------------------------------------------------------
(* Claims checked under SpecEnrichLive *)

\* the pass has returned, or update_shares has raised out of it
PassEnded == enr.pc \in {"done", "raised"}

\* the loop over the shares read has ended
LookupsEnded == enr.pc \in {"write", "done", "raised"}

\* how many Shares of the list carry the address
OccursIn(address, shares) ==
    Cardinality({m \in 1..Len(shares) : shares[m].address = address})

\* every pass comes to its end
PassTerminates == <>PassEnded

\* no Share is looked up more than max_attempts times
LookupsBounded == enr.lookups <= max_attempts /\ enr.attempt <= max_attempts

\* once the loop has ended, every Share read is in updated_shares exactly
\* once and updated_shares holds nothing else
InUpdateSetOnce ==
    LookupsEnded =>
        /\ Len(enr.updated) = Len(enr.shares)
        /\ \A n \in 1..Len(enr.shares) :
              OccursIn(enr.shares[n].address, enr.updated) = 1

\* the Shares of updated_shares carry a twitter_username
UpdateSetNamed ==
    \A m \in 1..Len(enr.updated) : enr.updated[m].twitter_username # None

\* after the pass has committed its write, no Share it read is missing a
\* twitter_username: a later pass does not select it
NotSelectedAgain ==
    enr.pc = "done" =>
        LET again == get_shares_missing_twitter(shares_table, EnrichLimit)
        IN  \A n \in 1..Len(enr.shares) :
                OccursIn(enr.shares[n].address, again) = 0

\* C31: in one enrichment pass no Share missing a twitter_username is looked
\* up more than max_attempts times, and every such Share ends the pass in
\* the update set exactly once with a twitter_username that is not None
\* (the data of the lookup or the "not_found" defaults), so that after the
\* pass's write it is not selected as missing by a later pass.
C31_EnrichedOnce ==
    /\ LookupsBounded
    /\ InUpdateSetOnce
    /\ UpdateSetNamed
    /\ NotSelectedAgain
====
